---- MODULE Spec2Model ----
(***************************************************************************)
(* A state-machine model of the single precision matrix multiply (SGEMM)   *)
(* micro-kernels of MLAS: MlasGemmFloatKernelAvx, MlasGemmFloatKernelFma3,  *)
(* MlasGemmFloatKernelAvx512F (B packed in 16-column panels) and the M = 1  *)
(* kernels MlasSgemmKernelM1Avx and MlasSgemmKernelM1TransposeBAvx.         *)
(*                                                                         *)
(* Registers are variables named as in the assembly.  Pointers are element *)
(* offsets: r8/rbx/r13/r14 index the row-major C buffer (row stride rax =   *)
(* ldc), rdx indexes columns of the packed B panels.  The 64-bit counter    *)
(* rbp is an integer; a borrow of `sub` is the value going negative, which  *)
(* is how the code itself uses it (jb / jae, then add to correct).          *)
(*                                                                         *)
(* Every float is a pair <<x, y>>: the value in two runs of the same call   *)
(* that differ only in the initial contents of C (run 1: finite data, run   *)
(* 2: NaN-filled).  Arithmetic acts on both components alike.              *)
(***************************************************************************)
EXTENDS Integers, Sequences, FiniteSets, TLC

\* ------------------------------------------------------------------ bounds
\* rows given to the row loop beyond the tallest tile of the kernel
ExtraM == 1
\* columns beyond one full band plus one half band of the kernel
ExtraN == 1
\* CountK of the packed-B kernels; the M = 1 kernels get KBaseOf more, so
\* that each path of their K loops is taken
MaxK == 2

\* ------------------------------------------------------------ float values
NaN == 0 - 1000000

FAdd(a, b) == IF a = NaN \/ b = NaN THEN NaN ELSE a + b

FMul(a, b) == IF a = NaN \/ b = NaN THEN NaN ELSE a * b

Both(x) == <<x, x>>

Zero == Both(0)

PAdd(x, y) == <<FAdd(x[1], y[1]), FAdd(x[2], y[2])>>

PMul(x, y) == <<FMul(x[1], y[1]), FMul(x[2], y[2])>>

\* vector instructions, lane by lane
vxorps(w) == [i \in 0..(w - 1) |-> Zero]

vaddps(x, y) == [i \in DOMAIN x |-> PAdd(x[i], y[i])]

\* a multiply that leaves its first operand as it is: alpha is lost
vmulpsKeepsFirst(x, y) == x

vmulps(x, y) == [i \in DOMAIN x |-> PMul(x[i], y[i])]

vbroadcastss(w, s) == [i \in 0..(w - 1) |-> s]

\* vfmadd231ps a,b,c : a = b*c + a
vfmadd231ps(a, b, c) == [i \in DOMAIN a |-> PAdd(PMul(b[i], c[i]), a[i])]

\* vfmadd213ps with the addend taken twice
vfmadd213psAddendTwice(a, b, c) == vaddps(vaddps(vmulps(a, b), c), c)

\* vfmadd213ps taken for a plain multiply: the addend c is lost
vfmadd213psNoAddend(a, b, c) == [i \in DOMAIN a |-> PMul(b[i], a[i])]

\* vfmadd213ps a,b,c : a = b*a + c
vfmadd213ps(a, b, c) == [i \in DOMAIN a |-> PAdd(PMul(b[i], a[i]), c[i])]

AllLanes(w) == 0..(w - 1)

\* -------------------------------------------------------------- the inputs
\* A, B and the initial C are fixed by position, so that a value that lands
\* in the wrong row or column shows.
InitC(a) == <<100 + a, NaN>>

VARIABLES variant, M, N, K, Alpha, Beta, ZeroMode, ldc,
          rowsDone, calls, pc, rc, r11, rbp, r8, rbx, r13, r14, rdx,
          r9, rcx, rax, zmask, mask, regs, C, log

\* The worked example: M = 3, N = 2, K = 4, alpha = 1, with these A and B and
\* this result.
ExampleA == <<<<1, 2, 3, 4>>, <<5, 6, 7, 8>>, <<9, 10, 11, 12>>>>

ExampleB == <<<<1, 0>>, <<0, 1>>, <<1, 1>>, <<1, 1>>>>

ExampleC == <<<<8, 9>>, <<20, 21>>, <<32, 33>>>>

Example == M = 3 /\ N = 2 /\ K = 4 /\ Alpha = 1

MatA(i, k) ==
    IF Example /\ i < 3 /\ k < 4 THEN ExampleA[i + 1][k + 1] ELSE i + 2 * k + 1

MatB(k, j) ==
    IF Example /\ k < 4 /\ j < 2 THEN ExampleB[k + 1][j + 1] ELSE j + 7 * k - 3

\* The state of the program around one kernel invocation:
\*   tid, other       the invocation that is running and the saved registers
\*                    and stack frame of the one that is not, when two
\*                    threads each run a kernel
\*   history          what the SGEMM driver has done to C so far: for each
\*                    call its beta and the C it was given
\*   args, sgemm      the arguments and the locals of the sgemm_cpu extern
\*   tcall            the element-type conversion being made
\*   cpu, token, once, threads   the host CPU, the process-wide capability
\*                    token, its initialize-once barrier (the flag and the
\*                    number of detections published), the threads using it
\*   matmul           a call of MatMulExternCpu: its arguments, the option,
\*                    and what it has done so far
\*   fusion           a run of EmbedLayerNormFusion::ApplyImpl over a graph
\*   upsample         an Upsample / Resize kernel under construction, or
\*                    parsing a scales input
\*   unsq             a call of UnsqueezeElimination::Apply
\*   info             a call of GetTensorShapeAndType and the
\*                    OrtTensorTypeAndShapeInfo objects it creates and releases
VARIABLES tid, other, history, args, sgemm, tcall, cpu, token, once, threads,
          matmul, fusion, upsample, unsq, info

parvars == <<tid, other>>

sgemmvars == <<args, sgemm>>

oncevars == <<cpu, token, once, threads>>

\* what no instruction of a kernel writes
host == <<parvars, history, sgemmvars, tcall, oncevars,
          matmul, fusion, upsample, unsq, info>>

vars == <<variant, M, N, K, Alpha, Beta, ZeroMode, ldc,
          rowsDone, calls, pc, rc, r11, rbp, r8, rbx, r13, r14, rdx,
          r9, rcx, rax, zmask, mask, regs, C, log, host>>

\* the arguments of the running invocation
kargs == <<variant, M, N, K, Alpha, Beta, ZeroMode, ldc>>

inputs == <<kargs, host>>

\* registers only the M = 1 kernels use: r9, rcx, rax and the zeroing mask ymm0
m1regs == <<r9, rcx, rax, zmask>>

\* state only the row-tiled kernels and their row loop use
tileregs == <<rowsDone, calls, rc, r13, r14>>

\* The packed B buffer: panels of 16 columns, K rows each; the columns past N
\* that fill the last panel are padding, whose content is not specified.
PackedB(k, c) == IF c < N THEN Both(MatB(k, c)) ELSE Both(NaN)

\* YMMWORD/ZMMWORD PTR [rdx + ...]: w consecutive floats of row k of B packed
LoadB(k, c, w) == [i \in 0..(w - 1) |-> PackedB(k, c + i)]

\* a load from C that brings nothing: the accumulate path without its addend
LoadCAsZero(addr, lanes, w) == [i \in 0..(w - 1) |-> Zero]

\* a (masked) vector load from C; a masked-off lane reads nothing and is zero
LoadC(addr, lanes, w) ==
    [i \in 0..(w - 1) |->
        IF i \in lanes /\ (addr + i) \in DOMAIN C THEN C[addr + i] ELSE Zero]

\* the vector stores of one output block: Dst is a sequence of
\* <<address, vector>>, stored in order, under the lane mask `lanes`
StoreRows(mem, Dst, lanes) ==
    [a \in DOMAIN mem |->
        LET hit == {n \in 1..Len(Dst) : (a - Dst[n][1]) \in lanes}
        IN IF hit = {} THEN mem[a]
           ELSE LET n == CHOOSE x \in hit : \A y \in hit : y <= x
                IN Dst[n][2][a - Dst[n][1]]]

\* the record of one memory access: what, where, which lanes, and the label
\* of the block that made it
Ev(op, addr, lanes) == [op |-> op, addr |-> addr, lanes |-> lanes, at |-> pc]

EvRows(op, Dst, lanes) == [n \in 1..Len(Dst) |-> Ev(op, Dst[n][1], lanes)]


\* MlasMaskMoveAvx: the table of lane numbers 0..7 the masks are compared with
MlasMaskMoveAvx(i) == i

\* the compare taken as greater-or-equal: one lane too many
MaskMoveLanesGE(count) == {i \in 0..7 : count >= MlasMaskMoveAvx(i)}

\* vpcmpgtd count,[MlasMaskMoveAvx]: lane i is enabled iff count > table[i]
MaskMoveLanes(count) == {i \in 0..7 : count > MlasMaskMoveAvx(i)}

\* ===================================================== SgemmKernelAvx.asm
\* ymm8/ymm9 .. ymm14/ymm15 accumulate columns 0-7 / 8-15 of rows 1..4
AvxLo(r) == 6 + 2 * r

AvxHi(r) == 7 + 2 * r

AvxRegs(RowCount) == 8..(7 + 2 * RowCount)

\* AvxAddr with row 2 addressed as [r8] instead of [r8+rax]
AvxAddrRow2AtR8(r, p8, pbx) ==
    CASE r = 1 -> p8
      [] r = 2 -> p8
      [] r = 3 -> pbx
      [] OTHER -> pbx + ldc

\* rows 1,2 are addressed from r8, rows 3,4 from rbx (C plus 2 rows)
AvxAddr(r, p8, pbx) ==
    CASE r = 1 -> p8
      [] r = 2 -> p8 + ldc
      [] r = 3 -> pbx
      [] OTHER -> pbx + ldc

ComputeBlockAvxBy16(R, RowCount, k) ==
    LET ymm0 == LoadB(k, rdx, 8)
        ymm1 == LoadB(k, rdx + 8, 8)
    IN [q \in DOMAIN R |->
          IF \E r \in 1..RowCount : q = AvxLo(r)
          THEN LET r == CHOOSE x \in 1..RowCount : q = AvxLo(x)
                   ymm3 == vbroadcastss(8, Both(MatA(rowsDone + r - 1, k)))
               IN vaddps(R[q], vmulps(ymm3, ymm0))
          ELSE IF \E r \in 1..RowCount : q = AvxHi(r)
          THEN LET r == CHOOSE x \in 1..RowCount : q = AvxHi(x)
                   ymm3 == vbroadcastss(8, Both(MatA(rowsDone + r - 1, k)))
               IN vaddps(R[q], vmulps(ymm3, ymm1))
          ELSE R[q]]

ComputeBlockAvxBy8(R, RowCount, k) ==
    LET ymm0 == LoadB(k, rdx, 8)
    IN [q \in DOMAIN R |->
          IF \E r \in 1..RowCount : q = AvxHi(r)
          THEN LET r == CHOOSE x \in 1..RowCount : q = AvxHi(x)
                   ymm3 == vbroadcastss(8, Both(MatA(rowsDone + r - 1, k)))
               IN vaddps(R[q], vmulps(ymm3, ymm0))
          ELSE R[q]]

\* ComputeBlockLoop runs the block macro once for each of the CountK rows of
\* the B panel and leaves rdx at the next panel.
RECURSIVE ComputeBlockAvxLoop(_, _, _, _)
ComputeBlockAvxLoop(by, R, RowCount, k) ==
    IF k >= K THEN R
    ELSE ComputeBlockAvxLoop(by,
            IF by = 16 THEN ComputeBlockAvxBy16(R, RowCount, k)
                       ELSE ComputeBlockAvxBy8(R, RowCount, k),
            RowCount, k + 1)

\* the 4-row instance taken for CountM = 3 as well: one row more than returned
AvxRowCountFourForThree(CountM) == IF CountM >= 3 THEN 4 ELSE IF CountM >= 2 THEN 2 ELSE 1

\* the row tile MlasGemmFloatKernelAvx picks for CountM rows
AvxRowCount(CountM) == IF CountM >= 4 THEN 4 ELSE IF CountM >= 2 THEN 2 ELSE 1

\* the instances of ProcessCountM in MlasGemmFloatKernelAvx
AvxTiles == {4, 2, 1}

\* MlasGemmFloatKernelAvx without the `mov r11d,2` of the 2-row path
AvxRowsHandledNoMov2(CountM) == IF CountM >= 4 THEN 4 ELSE CountM

\* r11 on return: set to 4 or 2, else left as passed
AvxRowsHandled(CountM) == IF CountM >= 4 THEN 4 ELSE IF CountM >= 2 THEN 2 ELSE CountM

\* SgemmKernelAvxEntry: the arguments are loaded into the registers
SgemmKernelAvxEntry(RowCount, handled, first, k) ==
    /\ rc' = RowCount
    /\ r11' = handled
    /\ rbp' = N
    /\ r8' = rowsDone * ldc
    /\ rdx' = 0
    /\ mask' = k
    /\ log' = <<>>
    /\ pc' = first
    /\ UNCHANGED <<inputs, m1regs, rowsDone, calls, rbx, r13, r14, C>>

MlasGemmFloatKernelAvx ==
    /\ pc = "call" /\ variant = "Avx"
    /\ LET CountM == M - rowsDone
       IN /\ regs' = [q \in AvxRegs(AvxRowCount(CountM)) |-> vxorps(8)]
          /\ SgemmKernelAvxEntry(AvxRowCount(CountM), AvxRowsHandled(CountM),
                         IF N <= 8 THEN "ProcessRemainingCountN"
                                   ELSE "ProcessNextColumnLoop16xN", {})

AvxProcessNextColumnLoop16xN ==
    /\ pc = "ProcessNextColumnLoop16xN" /\ variant = "Avx"
    /\ LET ymm2 == vbroadcastss(8, Both(Alpha))
           zeroed == [q \in DOMAIN regs |-> vxorps(8)]
           acc == ComputeBlockAvxLoop(16, zeroed, rc, 0)
           scaled == [q \in DOMAIN regs |-> vmulps(acc[q], ymm2)]
           pbx == IF rc > 2 THEN r8 + 2 * ldc ELSE rbx
           ldB == Ev("ldB", rdx, AllLanes(16))
       IN /\ rbx' = pbx
          /\ rdx' = rdx + 16
          /\ rbp' = rbp - 16
          /\ IF rbp - 16 < 0
             THEN /\ pc' = "OutputMasked16xNBlock"
                  /\ regs' = scaled
                  /\ log' = log \o <<ldB>>
             ELSE IF ZeroMode
             THEN /\ pc' = "Store16xNBlock"
                  /\ regs' = scaled
                  /\ log' = log \o <<ldB>>
             ELSE /\ pc' = "Store16xNBlock"
                  /\ regs' = [q \in DOMAIN regs |->
                        LET r == (q - 6) \div 2
                            a == AvxAddr(r, r8, pbx) + (IF q = AvxHi(r) THEN 8 ELSE 0)
                        IN vaddps(scaled[q], LoadC(a, AllLanes(8), 8))]
                  /\ log' = log \o <<ldB>>
                        \o [n \in 1..(2 * rc) |->
                              LET r == (n + 1) \div 2
                              IN Ev("ld", AvxAddr(r, r8, pbx)
                                          + (IF n % 2 = 0 THEN 8 ELSE 0), AllLanes(8))]
    /\ UNCHANGED <<inputs, m1regs, rowsDone, calls, rc, r11, r8, r13, r14, mask, C>>

\* Store16xNBlock without `add r8,16*4`: C is not advanced past the band
AvxStore16xNBlockNoAdvance ==
    /\ pc = "Store16xNBlock" /\ variant = "Avx"
    /\ LET Dst == [n \in 1..(2 * rc) |->
                     LET r == (n + 1) \div 2
                     IN IF n % 2 = 1
                        THEN <<AvxAddr(r, r8, rbx), regs[AvxLo(r)]>>
                        ELSE <<AvxAddr(r, r8, rbx) + 8, regs[AvxHi(r)]>>]
       IN /\ C' = StoreRows(C, Dst, AllLanes(8))
          /\ log' = log \o EvRows("st", Dst, AllLanes(8))
    /\ r8' = r8
    /\ pc' = IF rbp > 8 THEN "ProcessNextColumnLoop16xN"
             ELSE IF rbp = 0 THEN "ExitKernel"
             ELSE "ProcessRemainingCountN"
    /\ UNCHANGED <<inputs, m1regs, rowsDone, calls, rc, r11, rbp, rbx, r13, r14, rdx, mask, regs>>

AvxStore16xNBlock ==
    /\ pc = "Store16xNBlock" /\ variant = "Avx"
    /\ LET Dst == [n \in 1..(2 * rc) |->
                     LET r == (n + 1) \div 2
                     IN IF n % 2 = 1
                        THEN <<AvxAddr(r, r8, rbx), regs[AvxLo(r)]>>
                        ELSE <<AvxAddr(r, r8, rbx) + 8, regs[AvxHi(r)]>>]
       IN /\ C' = StoreRows(C, Dst, AllLanes(8))
          /\ log' = log \o EvRows("st", Dst, AllLanes(8))
    /\ r8' = r8 + 16
    /\ pc' = IF rbp > 8 THEN "ProcessNextColumnLoop16xN"
             ELSE IF rbp = 0 THEN "ExitKernel"
             ELSE "ProcessRemainingCountN"
    /\ UNCHANGED <<inputs, m1regs, rowsDone, calls, rc, r11, rbp, rbx, r13, r14, rdx, mask, regs>>

AvxProcessRemainingCountN ==
    /\ pc = "ProcessRemainingCountN" /\ variant = "Avx"
    /\ LET ymm2 == vbroadcastss(8, Both(Alpha))
           zeroed == [q \in DOMAIN regs |->
                        IF \E r \in 1..rc : q = AvxHi(r) THEN vxorps(8) ELSE regs[q]]
           acc == ComputeBlockAvxLoop(8, zeroed, rc, 0)
           scaled == [q \in DOMAIN regs |->
                        IF \E r \in 1..rc : q = AvxHi(r)
                        THEN vmulps(acc[q], ymm2) ELSE acc[q]]
           pbx == IF rc > 2 THEN r8 + 2 * ldc ELSE rbx
           ldB == Ev("ldB", rdx, AllLanes(8))
       IN /\ rbx' = pbx
          /\ rdx' = rdx + 16
          /\ IF rbp < 8
             THEN /\ pc' = "OutputMasked8xNBlock"
                  /\ regs' = scaled
                  /\ log' = log \o <<ldB>>
             ELSE IF ZeroMode
             THEN /\ pc' = "Store8xNBlock"
                  /\ regs' = scaled
                  /\ log' = log \o <<ldB>>
             ELSE /\ pc' = "Store8xNBlock"
                  /\ regs' = [q \in DOMAIN regs |->
                        IF \E r \in 1..rc : q = AvxHi(r)
                        THEN vaddps(scaled[q],
                                LoadC(AvxAddr((q - 6) \div 2, r8, pbx), AllLanes(8), 8))
                        ELSE scaled[q]]
                  /\ log' = log \o <<ldB>>
                        \o [r \in 1..rc |-> Ev("ld", AvxAddr(r, r8, pbx), AllLanes(8))]
    /\ UNCHANGED <<inputs, m1regs, rowsDone, calls, rc, r11, rbp, r8, r13, r14, mask, C>>

AvxStore8xNBlock ==
    /\ pc = "Store8xNBlock" /\ variant = "Avx"
    /\ LET Dst == [r \in 1..rc |-> <<AvxAddr(r, r8, rbx), regs[AvxHi(r)]>>]
       IN /\ C' = StoreRows(C, Dst, AllLanes(8))
          /\ log' = log \o EvRows("st", Dst, AllLanes(8))
    /\ pc' = "ExitKernel"
    /\ UNCHANGED <<inputs, m1regs, rowsDone, calls, rc, r11, rbp, r8, rbx, r13, r14, rdx, mask, regs>>

\* OutputMasked16xNBlock without its ZeroMode test: C is always added
AvxOutputMasked16xNBlockNoTest ==
    /\ pc = "OutputMasked16xNBlock" /\ variant = "Avx"
    /\ LET lo == [r \in 1..rc |->
                    vaddps(regs[AvxLo(r)], LoadC(AvxAddr(r, r8, rbx), AllLanes(8), 8))]
           Dst == [r \in 1..rc |-> <<AvxAddr(r, r8, rbx), lo[r]>>]
       IN /\ regs' = [q \in DOMAIN regs |->
                        IF \E r \in 1..rc : q = AvxLo(r)
                        THEN lo[(q - 6) \div 2] ELSE regs[q]]
          /\ C' = StoreRows(C, Dst, AllLanes(8))
          /\ log' = log \o EvRows("ld", Dst, AllLanes(8)) \o EvRows("st", Dst, AllLanes(8))
    /\ r8' = r8 + 8
    /\ rbx' = IF rc > 2 THEN rbx + 8 ELSE rbx
    /\ rbp' = rbp + 8
    /\ pc' = "OutputMasked8xNBlock"
    /\ UNCHANGED <<inputs, m1regs, rowsDone, calls, rc, r11, r13, r14, rdx, mask>>

AvxOutputMasked16xNBlock ==
    /\ pc = "OutputMasked16xNBlock" /\ variant = "Avx"
    /\ LET lo == [r \in 1..rc |->
                    IF ZeroMode THEN regs[AvxLo(r)]
                    ELSE vaddps(regs[AvxLo(r)],
                                LoadC(AvxAddr(r, r8, rbx), AllLanes(8), 8))]
           Dst == [r \in 1..rc |-> <<AvxAddr(r, r8, rbx), lo[r]>>]
       IN /\ regs' = [q \in DOMAIN regs |->
                        IF \E r \in 1..rc : q = AvxLo(r)
                        THEN lo[(q - 6) \div 2] ELSE regs[q]]
          /\ C' = StoreRows(C, Dst, AllLanes(8))
          /\ log' = log \o (IF ZeroMode THEN <<>> ELSE EvRows("ld", Dst, AllLanes(8)))
                        \o EvRows("st", Dst, AllLanes(8))
    /\ r8' = r8 + 8
    /\ rbx' = IF rc > 2 THEN rbx + 8 ELSE rbx
    /\ rbp' = rbp + 8
    /\ pc' = "OutputMasked8xNBlock"
    /\ UNCHANGED <<inputs, m1regs, rowsDone, calls, rc, r11, r13, r14, rdx, mask>>

AvxOutputMasked8xNBlock ==
    /\ pc = "OutputMasked8xNBlock" /\ variant = "Avx"
    /\ LET ymm0 == MaskMoveLanes(rbp)
           lo == [r \in 1..rc |->
                    IF ZeroMode THEN regs[AvxLo(r)]
                    ELSE LoadC(AvxAddr(r, r8, rbx), ymm0, 8)]
           hi == [r \in 1..rc |->
                    IF ZeroMode THEN regs[AvxHi(r)]
                    ELSE vaddps(regs[AvxHi(r)], lo[r])]
           Dst == [r \in 1..rc |-> <<AvxAddr(r, r8, rbx), hi[r]>>]
       IN /\ mask' = ymm0
          /\ regs' = [q \in DOMAIN regs |->
                        IF \E r \in 1..rc : q = AvxLo(r) THEN lo[(q - 6) \div 2]
                        ELSE hi[(q - 6) \div 2]]
          /\ C' = StoreRows(C, Dst, ymm0)
          /\ log' = log \o (IF ZeroMode THEN <<>> ELSE EvRows("ld", Dst, ymm0))
                        \o EvRows("st", Dst, ymm0)
    /\ pc' = "ExitKernel"
    /\ UNCHANGED <<inputs, m1regs, rowsDone, calls, rc, r11, rbp, r8, rbx, r13, r14, rdx>>

\* ==================================================== SgemmKernelFma3.asm
\* ymm4/ymm5 .. ymm14/ymm15 accumulate columns 0-7 / 8-15 of rows 1..6; the
\* AVX512F kernel numbers its accumulators zmm4/zmm5 .. zmm26/zmm27 alike
AccLo(r) == 2 + 2 * r

AccHi(r) == 3 + 2 * r

AccRegs(RowCount) == 4..(3 + 2 * RowCount)

IsLo(q) == q % 2 = 0

RowOf(q) == (q - 2) \div 2

\* rows 1..3 are addressed from r8, rows 4..6 from rbx (C plus 3 rows)
Fma3Addr(r, p8, pbx) ==
    IF r <= 3 THEN p8 + (r - 1) * ldc ELSE pbx + (r - 4) * ldc

ComputeBlockFma3By16(R, RowCount, k) ==
    LET ymm0 == LoadB(k, rdx, 8)
        ymm1 == LoadB(k, rdx + 8, 8)
    IN [q \in DOMAIN R |->
          IF RowOf(q) <= RowCount
          THEN LET ymm3 == vbroadcastss(8, Both(MatA(rowsDone + RowOf(q) - 1, k)))
               IN vfmadd231ps(R[q], ymm3, IF IsLo(q) THEN ymm0 ELSE ymm1)
          ELSE R[q]]

ComputeBlockFma3By8(R, RowCount, k) ==
    LET ymm0 == LoadB(k, rdx, 8)
    IN [q \in DOMAIN R |->
          IF RowOf(q) <= RowCount /\ ~IsLo(q)
          THEN LET ymm3 == vbroadcastss(8, Both(MatA(rowsDone + RowOf(q) - 1, k)))
               IN vfmadd231ps(R[q], ymm3, ymm0)
          ELSE R[q]]

RECURSIVE ComputeBlockFma3Loop(_, _, _, _)
ComputeBlockFma3Loop(by, R, RowCount, k) ==
    IF k >= K THEN R
    ELSE ComputeBlockFma3Loop(by,
            IF by = 16 THEN ComputeBlockFma3By16(R, RowCount, k)
                       ELSE ComputeBlockFma3By8(R, RowCount, k),
            RowCount, k + 1)

\* the ProcessCountM instance the compare/jump ladder selects
Fma3RowCount(CountM) ==
    IF CountM > 5 THEN 6
    ELSE IF CountM = 5 THEN 5
    ELSE IF CountM > 3 THEN 4
    ELSE IF CountM = 3 THEN 3
    ELSE IF CountM = 1 THEN 1
    ELSE 2

\* the instances of ProcessCountM in MlasGemmFloatKernelFma3
Fma3Tiles == {6, 5, 4, 3, 2, 1}

\* MlasGemmFloatKernelFma3 returning 6 on every path
Fma3RowsHandledAlways6(CountM) == 6

\* r11 on return: set to 6 on the 6-row path, else left as passed
Fma3RowsHandled(CountM) == IF CountM > 5 THEN 6 ELSE CountM

MlasGemmFloatKernelFma3 ==
    /\ pc = "call" /\ variant = "Fma3"
    /\ LET CountM == M - rowsDone
       IN /\ regs' = [q \in AccRegs(Fma3RowCount(CountM)) |-> vxorps(8)]
          /\ SgemmKernelAvxEntry(Fma3RowCount(CountM), Fma3RowsHandled(CountM),
                         IF N <= 8 THEN "ProcessRemainingCountN"
                                   ELSE "ProcessNextColumnLoop16xN", {})

Fma3ProcessNextColumnLoop16xN ==
    /\ pc = "ProcessNextColumnLoop16xN" /\ variant = "Fma3"
    /\ LET acc == ComputeBlockFma3Loop(16, regs, rc, 0)
           ymm2 == vbroadcastss(8, Both(Alpha))
           pbx == IF rc > 3 THEN r8 + 3 * ldc ELSE rbx
           ldB == Ev("ldB", rdx, AllLanes(16))
           Src == [n \in 1..(2 * rc) |->
                     LET r == (n + 1) \div 2
                     IN Fma3Addr(r, r8, pbx) + (IF n % 2 = 0 THEN 8 ELSE 0)]
       IN /\ rbx' = pbx
          /\ rdx' = rdx + 16
          /\ rbp' = rbp - 16
          /\ IF rbp - 16 < 0
             THEN /\ pc' = "OutputMasked16xNBlock"
                  /\ regs' = acc
                  /\ log' = log \o <<ldB>>
             ELSE IF ZeroMode
             THEN /\ pc' = "Store16xNBlock"
                  /\ regs' = [q \in DOMAIN regs |-> vmulps(acc[q], ymm2)]
                  /\ log' = log \o <<ldB>>
             ELSE /\ pc' = "Store16xNBlock"
                  /\ regs' = [q \in DOMAIN regs |->
                        vfmadd213ps(acc[q], ymm2, LoadC(Src[q - 3], AllLanes(8), 8))]
                  /\ log' = log \o <<ldB>>
                        \o [n \in 1..(2 * rc) |-> Ev("ld", Src[n], AllLanes(8))]
    /\ UNCHANGED <<inputs, m1regs, rowsDone, calls, rc, r11, r8, r13, r14, mask, C>>

\* Store16xNBlock with the loop test lost: it always jumps back to the head
Fma3Store16xNBlockAlwaysLoops ==
    /\ pc = "Store16xNBlock" /\ variant = "Fma3"
    /\ LET Dst == [n \in 1..(2 * rc) |->
                     LET r == (n + 1) \div 2
                     IN IF n % 2 = 1
                        THEN <<Fma3Addr(r, r8, rbx), regs[AccLo(r)]>>
                        ELSE <<Fma3Addr(r, r8, rbx) + 8, regs[AccHi(r)]>>]
       IN /\ C' = StoreRows(C, Dst, AllLanes(8))
          /\ log' = log \o EvRows("st", Dst, AllLanes(8))
    /\ r8' = r8 + 16
    /\ regs' = [q \in DOMAIN regs |-> vxorps(8)]
    /\ pc' = "ProcessNextColumnLoop16xN"
    /\ UNCHANGED <<inputs, m1regs, rowsDone, calls, rc, r11, rbp, rbx, r13, r14, rdx, mask>>

Fma3Store16xNBlock ==
    /\ pc = "Store16xNBlock" /\ variant = "Fma3"
    /\ LET Dst == [n \in 1..(2 * rc) |->
                     LET r == (n + 1) \div 2
                     IN IF n % 2 = 1
                        THEN <<Fma3Addr(r, r8, rbx), regs[AccLo(r)]>>
                        ELSE <<Fma3Addr(r, r8, rbx) + 8, regs[AccHi(r)]>>]
       IN /\ C' = StoreRows(C, Dst, AllLanes(8))
          /\ log' = log \o EvRows("st", Dst, AllLanes(8))
    /\ r8' = r8 + 16
    /\ regs' = [q \in DOMAIN regs |-> vxorps(8)]
    /\ pc' = IF rbp > 8 THEN "ProcessNextColumnLoop16xN"
             ELSE IF rbp = 0 THEN "ExitKernel"
             ELSE "ProcessRemainingCountN"
    /\ UNCHANGED <<inputs, m1regs, rowsDone, calls, rc, r11, rbp, rbx, r13, r14, rdx, mask>>

Fma3ProcessRemainingCountN ==
    /\ pc = "ProcessRemainingCountN" /\ variant = "Fma3"
    /\ LET acc == ComputeBlockFma3Loop(8, regs, rc, 0)
           ymm2 == vbroadcastss(8, Both(Alpha))
           pbx == IF rc > 3 THEN r8 + 3 * ldc ELSE rbx
           ldB == Ev("ldB", rdx, AllLanes(8))
       IN /\ rbx' = pbx
          /\ rdx' = rdx + 16
          /\ IF rbp < 8
             THEN /\ pc' = "OutputMasked8xNBlock"
                  /\ regs' = acc
                  /\ log' = log \o <<ldB>>
             ELSE IF ZeroMode
             THEN /\ pc' = "Store8xNBlock"
                  /\ regs' = [q \in DOMAIN regs |->
                        IF IsLo(q) THEN acc[q] ELSE vmulps(acc[q], ymm2)]
                  /\ log' = log \o <<ldB>>
             ELSE /\ pc' = "Store8xNBlock"
                  /\ regs' = [q \in DOMAIN regs |->
                        IF IsLo(q) THEN acc[q]
                        ELSE vfmadd213ps(acc[q], ymm2,
                                LoadC(Fma3Addr(RowOf(q), r8, pbx), AllLanes(8), 8))]
                  /\ log' = log \o <<ldB>>
                        \o [r \in 1..rc |-> Ev("ld", Fma3Addr(r, r8, pbx), AllLanes(8))]
    /\ UNCHANGED <<inputs, m1regs, rowsDone, calls, rc, r11, rbp, r8, r13, r14, mask, C>>

Fma3Store8xNBlock ==
    /\ pc = "Store8xNBlock" /\ variant = "Fma3"
    /\ LET Dst == [r \in 1..rc |-> <<Fma3Addr(r, r8, rbx), regs[AccHi(r)]>>]
       IN /\ C' = StoreRows(C, Dst, AllLanes(8))
          /\ log' = log \o EvRows("st", Dst, AllLanes(8))
    /\ pc' = "ExitKernel"
    /\ UNCHANGED <<inputs, m1regs, rowsDone, calls, rc, r11, rbp, r8, rbx, r13, r14, rdx, mask, regs>>

Fma3OutputMasked16xNBlock ==
    /\ pc = "OutputMasked16xNBlock" /\ variant = "Fma3"
    /\ LET ymm2 == vbroadcastss(8, Both(Alpha))
           lo == [r \in 1..rc |->
                    IF ZeroMode THEN vmulps(regs[AccLo(r)], ymm2)
                    ELSE vfmadd213ps(regs[AccLo(r)], ymm2,
                                LoadC(Fma3Addr(r, r8, rbx), AllLanes(8), 8))]
           Dst == [r \in 1..rc |-> <<Fma3Addr(r, r8, rbx), lo[r]>>]
       IN /\ regs' = [q \in DOMAIN regs |-> IF IsLo(q) THEN lo[RowOf(q)] ELSE regs[q]]
          /\ C' = StoreRows(C, Dst, AllLanes(8))
          /\ log' = log \o (IF ZeroMode THEN <<>> ELSE EvRows("ld", Dst, AllLanes(8)))
                        \o EvRows("st", Dst, AllLanes(8))
    /\ r8' = r8 + 8
    /\ rbx' = IF rc > 3 THEN rbx + 8 ELSE rbx
    /\ rbp' = rbp + 8
    /\ pc' = "OutputMasked8xNBlock"
    /\ UNCHANGED <<inputs, m1regs, rowsDone, calls, rc, r11, r13, r14, rdx, mask>>

Fma3OutputMasked8xNBlock ==
    /\ pc = "OutputMasked8xNBlock" /\ variant = "Fma3"
    /\ LET ymm2 == vbroadcastss(8, Both(Alpha))
           ymm0 == MaskMoveLanes(rbp)
           lo == [r \in 1..rc |->
                    IF ZeroMode THEN regs[AccLo(r)]
                    ELSE LoadC(Fma3Addr(r, r8, rbx), ymm0, 8)]
           hi == [r \in 1..rc |->
                    IF ZeroMode THEN vmulps(regs[AccHi(r)], ymm2)
                    ELSE vfmadd213ps(regs[AccHi(r)], ymm2, lo[r])]
           Dst == [r \in 1..rc |-> <<Fma3Addr(r, r8, rbx), hi[r]>>]
       IN /\ mask' = ymm0
          /\ regs' = [q \in DOMAIN regs |->
                        IF IsLo(q) THEN lo[RowOf(q)] ELSE hi[RowOf(q)]]
          /\ C' = StoreRows(C, Dst, ymm0)
          /\ log' = log \o (IF ZeroMode THEN <<>> ELSE EvRows("ld", Dst, ymm0))
                        \o EvRows("st", Dst, ymm0)
    /\ pc' = "ExitKernel"
    /\ UNCHANGED <<inputs, m1regs, rowsDone, calls, rc, r11, rbp, r8, rbx, r13, r14, rdx>>

\* ================================================== SgemmKernelAvx512F.asm
\* rows 1..3 are addressed from r8, 4..6 from rbx, 7..9 from r13, 10..12 from r14
Avx512FAddr(r, p8, pbx, p13, p14) ==
    IF r <= 3 THEN p8 + (r - 1) * ldc
    ELSE IF r <= 6 THEN pbx + (r - 4) * ldc
    ELSE IF r <= 9 THEN p13 + (r - 7) * ldc
    ELSE p14 + (r - 10) * ldc

\* rows 7..12 are emitted only by the 12-row instance (EmitIfCountGE RowCount, 12)
Avx512FEmits(RowCount, r) == IF r <= 6 THEN RowCount >= r ELSE RowCount >= 12

\* kmovw k1,edi: the lanes whose bit is set in the 16-bit word di
KLanes(edi) == {i \in 0..15 : (edi \div (2 ^ i)) % 2 = 1}

\* the tail mask without the `dec edi`: bit cl alone
Avx512FTailMaskNoDec(cl) == KLanes((2 ^ (cl % 32)) % (2 ^ 16))

\* mov edi,1 / shl edi,cl / dec edi: the mask of the cl remaining columns
Avx512FTailMask(cl) == KLanes(((2 ^ (cl % 32)) - 1) % (2 ^ 16))

ComputeBlockAvx512FBy32(R, RowCount, k) ==
    LET zmm0 == LoadB(k, rdx, 16)
        zmm1 == LoadB(k, rdx + 16, 16)
    IN [q \in DOMAIN R |->
          IF Avx512FEmits(RowCount, RowOf(q))
          THEN LET zmm3 == vbroadcastss(16, Both(MatA(rowsDone + RowOf(q) - 1, k)))
               IN vfmadd231ps(R[q], zmm3, IF IsLo(q) THEN zmm0 ELSE zmm1)
          ELSE R[q]]

ComputeBlockAvx512FBy16(R, RowCount, k) ==
    LET zmm0 == LoadB(k, rdx, 16)
    IN [q \in DOMAIN R |->
          IF Avx512FEmits(RowCount, RowOf(q)) /\ ~IsLo(q)
          THEN vfmadd231ps(R[q], zmm0,
                   vbroadcastss(16, Both(MatA(rowsDone + RowOf(q) - 1, k))))
          ELSE R[q]]

RECURSIVE ComputeBlockAvx512FLoop(_, _, _, _)
ComputeBlockAvx512FLoop(by, R, RowCount, k) ==
    IF k >= K THEN R
    ELSE ComputeBlockAvx512FLoop(by,
            IF by = 32 THEN ComputeBlockAvx512FBy32(R, RowCount, k)
                       ELSE ComputeBlockAvx512FBy16(R, RowCount, k),
            RowCount, k + 1)

Avx512FRowCount(CountM) ==
    IF CountM >= 12 THEN 12
    ELSE IF CountM > 5 THEN 6
    ELSE IF CountM = 5 THEN 5
    ELSE IF CountM > 3 THEN 4
    ELSE IF CountM = 3 THEN 3
    ELSE IF CountM = 1 THEN 1
    ELSE 2

\* the instances of ProcessCountM in MlasGemmFloatKernelAvx512F
Avx512FTiles == {12, 6, 5, 4, 3, 2, 1}

\* MlasGemmFloatKernelAvx512F without the `mov r11d,12` of the 12-row path
Avx512FRowsHandledNoMov12(CountM) ==
    IF CountM > 5 /\ CountM < 12 THEN 6 ELSE CountM

\* r11 on return: set to 12 or 6 on those paths, else left as passed
Avx512FRowsHandled(CountM) ==
    IF CountM >= 12 THEN 12 ELSE IF CountM > 5 THEN 6 ELSE CountM

\* vzeroall at entry clears zmm0-zmm15 only: zmm16-zmm27 hold what the caller left
MlasGemmFloatKernelAvx512F ==
    /\ pc = "call" /\ variant = "Avx512F"
    /\ LET CountM == M - rowsDone
       IN /\ regs' = [q \in AccRegs(Avx512FRowCount(CountM)) |->
                        IF q <= 15 THEN vxorps(16) ELSE vbroadcastss(16, Both(NaN))]
          /\ SgemmKernelAvxEntry(Avx512FRowCount(CountM), Avx512FRowsHandled(CountM),
                         IF N <= 16 THEN "ProcessRemainingCountN"
                                    ELSE "ProcessNextColumnLoop32xN", KLanes((2 ^ 16) - 1))

\* lea rbx,[rax*2+rax] / lea r13,[r8+rbx*2] / lea r14,[r13+rbx] / add rbx,r8
Avx512FRowPtrs(RowCount) ==
    <<IF RowCount > 3 THEN r8 + 3 * ldc ELSE rbx,
      IF RowCount = 12 THEN r8 + 6 * ldc ELSE r13,
      IF RowCount = 12 THEN r8 + 9 * ldc ELSE r14>>

Avx512FProcessNextColumnLoop32xN ==
    /\ pc = "ProcessNextColumnLoop32xN" /\ variant = "Avx512F"
    /\ LET cleared == [q \in DOMAIN regs |->
                         IF q >= 16 THEN (IF IsLo(q) THEN regs[4] ELSE regs[5])
                         ELSE regs[q]]
           acc == ComputeBlockAvx512FLoop(32, cleared, rc, 0)
           zmm31 == vbroadcastss(16, Both(Alpha))
           p == Avx512FRowPtrs(rc)
           ldB == Ev("ldB", rdx, AllLanes(32))
           Src == [r \in 1..rc |-> Avx512FAddr(r, r8, p[1], p[2], p[3])]
       IN /\ rbx' = p[1] /\ r13' = p[2] /\ r14' = p[3]
          /\ rdx' = rdx + 16 + 16
          /\ pc' = "Store32xNBlock"
          /\ IF ZeroMode
             THEN /\ regs' = [q \in DOMAIN regs |->
                        IF IsLo(q) THEN vmulps(acc[q], zmm31) ELSE acc[q]]
                  /\ log' = log \o <<ldB>>
             ELSE /\ regs' = [q \in DOMAIN regs |->
                        IF IsLo(q)
                        THEN vfmadd213ps(acc[q], zmm31,
                                 LoadC(Src[RowOf(q)], AllLanes(16), 16))
                        ELSE acc[q]]
                  /\ log' = log \o <<ldB>>
                        \o [r \in 1..rc |-> Ev("ld", Src[r], AllLanes(16))]
    /\ UNCHANGED <<inputs, m1regs, rowsDone, calls, rc, r11, rbp, r8, mask, C>>

Avx512FStore32xNBlock ==
    /\ pc = "Store32xNBlock" /\ variant = "Avx512F"
    /\ LET Dst == [r \in 1..rc |->
                     <<Avx512FAddr(r, r8, rbx, r13, r14), regs[AccLo(r)]>>]
       IN /\ C' = StoreRows(C, Dst, AllLanes(16))
          /\ log' = log \o EvRows("st", Dst, AllLanes(16))
    /\ r8' = r8 + 16
    /\ rbx' = IF rc > 3 THEN rbx + 16 ELSE rbx
    /\ r13' = IF rc = 12 THEN r13 + 16 ELSE r13
    /\ r14' = IF rc = 12 THEN r14 + 16 ELSE r14
    /\ rbp' = rbp - 16
    /\ pc' = "Output16xNBlock"
    /\ UNCHANGED <<inputs, m1regs, rowsDone, calls, rc, r11, rdx, mask, regs>>

\* Output16xNBlock .. Store16xNBlockWithMask and the loop test that follows
Avx512FOutput16xNBlock ==
    /\ pc = "Output16xNBlock" /\ variant = "Avx512F"
    /\ LET k1 == IF rbp - 16 >= 0 THEN mask ELSE Avx512FTailMask(rbp - 16 + 16)
           left == IF rbp - 16 >= 0 THEN rbp - 16 ELSE 0
           zmm31 == vbroadcastss(16, Both(Alpha))
           hi == [r \in 1..rc |->
                    IF ZeroMode THEN vmulps(regs[AccHi(r)], zmm31)
                    ELSE LET old == LoadC(Avx512FAddr(r, r8, rbx, r13, r14), k1, 16)
                             new == vfmadd213ps(regs[AccHi(r)], zmm31, old)
                         IN [i \in 0..15 |->
                               IF i \in k1 THEN new[i] ELSE regs[AccHi(r)][i]]]
           Dst == [r \in 1..rc |-> <<Avx512FAddr(r, r8, rbx, r13, r14), hi[r]>>]
       IN /\ mask' = k1
          /\ rbp' = left
          /\ C' = StoreRows(C, Dst, k1)
          /\ log' = log \o (IF ZeroMode THEN <<>> ELSE EvRows("ld", Dst, k1))
                        \o EvRows("st", Dst, k1)
          /\ pc' = IF left > 16 THEN "ProcessNextColumnLoop32xN"
                   ELSE IF left = 0 THEN "ExitKernel"
                   ELSE "ProcessRemainingCountN"
    /\ r8' = r8 + 16
    /\ regs' = [q \in DOMAIN regs |-> IF q <= 15 THEN vxorps(16) ELSE regs[q]]
    /\ UNCHANGED <<inputs, m1regs, rowsDone, calls, rc, r11, rbx, r13, r14, rdx>>

Avx512FProcessRemainingCountN ==
    /\ pc = "ProcessRemainingCountN" /\ variant = "Avx512F"
    /\ LET cleared == [q \in DOMAIN regs |->
                         IF q >= 16 /\ ~IsLo(q) THEN regs[5] ELSE regs[q]]
           p == Avx512FRowPtrs(rc)
       IN /\ regs' = ComputeBlockAvx512FLoop(16, cleared, rc, 0)
          /\ rbx' = p[1] /\ r13' = p[2] /\ r14' = p[3]
    /\ rdx' = rdx + 16
    /\ log' = Append(log, Ev("ldB", rdx, AllLanes(16)))
    /\ pc' = "Output16xNBlock"
    /\ UNCHANGED <<inputs, m1regs, rowsDone, calls, rc, r11, rbp, r8, mask, C>>

\* ============================================ MlasSgemmKernelM1Avx (M = 1)
\* bit b of a two's complement register (test reg,2^b)
Bit(x, b) == (x \div (2 ^ b)) % 2

\* A is one row of K floats; B is K rows of N floats (M1Avx) or N rows of K
\* floats (M1TransposeBAvx), rows ldb apart.  Anything else is not the
\* caller's data.
M1A(a) == IF a >= 0 /\ a < K THEN MatA(0, a) ELSE NaN

M1B(a) ==
    LET row == a \div rbx
        col == a % rbx
    IN IF variant = "M1Avx"
       THEN (IF a >= 0 /\ row < K /\ col < N THEN MatB(row, col) ELSE NaN)
       ELSE (IF a >= 0 /\ row < N /\ col < K THEN MatB(col, row) ELSE NaN)

\* vmovups / vmaskmovps ymm,[A + a] and ymm,[B + a]
LoadA(a, lanes) == [i \in 0..7 |-> IF i \in lanes THEN Both(M1A(a + i)) ELSE Zero]

LoadM1B(a, lanes) == [i \in 0..7 |-> IF i \in lanes THEN Both(M1B(a + i)) ELSE Zero]

LoadFrom(mem, addr, lanes, w) ==
    [i \in 0..(w - 1) |->
        IF i \in lanes /\ (addr + i) \in DOMAIN mem THEN mem[addr + i] ELSE Zero]

\* the zeroing done by multiplying with 0 instead of masking: 0 * NaN = NaN
vandnpsAsMultiply(m, x) ==
    [i \in DOMAIN x |-> IF i \in m THEN PMul(Zero, x[i]) ELSE x[i]]

\* vandnps d,m,x : d = (NOT m) AND x, bit by bit; an all-ones lane of m gives +0
vandnps(m, x) == [i \in DOMAIN x |-> IF i \in m THEN Zero ELSE x[i]]

\* ymm2*[rdx] + ymm3*[rdx+rbx] + ... over the rows 0..t of the group
RECURSIVE M1AvxDot(_, _, _)
M1AvxDot(t, col, lanes) ==
    IF t = 0 THEN vmulps(regs[2], LoadM1B(col, lanes))
    ELSE vaddps(M1AvxDot(t - 1, col, lanes),
                vmulps(regs[2 + t], LoadM1B(col + t * rbx, lanes)))

\* one 8-column block of a group of G rows of B: product, old C under the
\* zeroing mask, store
M1AvxBlock(G, mem, p8, pdx, lanes) ==
    LET ymm1 == M1AvxDot(G - 1, pdx, lanes)
        old == vandnps(zmask, LoadFrom(mem, p8, lanes, 8))
    IN StoreRows(mem, <<<<p8, vaddps(ymm1, old)>>>>, lanes)

M1AvxBlockEv(G, p8, pdx, lanes) ==
    [t \in 1..G |-> Ev("ldB", pdx + (t - 1) * rbx, lanes)]
        \o <<Ev("ld", p8, lanes), Ev("st", p8, lanes)>>

\* vpcmpgtd of (count AND 7) against MlasMaskMoveAvx
TailMask(count) == MaskMoveLanes(count % 8)

\* a comparison of Beta against 1: every Beta but 1 would zero
ZeroingMaskUnlessOne(w) == IF 1 = Beta THEN {} ELSE AllLanes(w)

\* vcmpeqss xmm0,xmm0,Beta with xmm0 = 0, spread over w lanes
ZeroingMask(w) == IF 0 = Beta THEN AllLanes(w) ELSE {}

\* the zeroing mask left as it is between the groups
KeepZeroingMask(m) == m

\* vxorps xmm0,xmm0,xmm0 ; switch to accumulate mode
SwitchToAccumulateMode(m) == {}

MlasSgemmKernelM1Avx ==
    /\ pc = "call" /\ variant = "M1Avx"
    /\ rbx' = N + 1
    /\ r11' = 0 /\ rdx' = 0 /\ r8' = 0 /\ rcx' = 0 /\ rax' = 0
    /\ rbp' = N
    /\ zmask' = ZeroingMask(8)
    /\ mask' = TailMask(N)
    /\ r9' = K - 4
    /\ regs' = [q \in 2..5 |-> vbroadcastss(8, Both(NaN))]
    /\ log' = <<>>
    /\ pc' = IF K - 4 < 0 THEN "ProcessRemainingCountK" ELSE "ProcessRowLoop4"
    /\ UNCHANGED <<inputs, tileregs, C>>

\* ProcessRowLoop4 / ProcessRowLoop2 / ProcessRowLoop1: broadcast G elements
\* of A, reload CountN, B and C, advance A and B by G rows
M1AvxRowLoop(G, band, loop, rest) ==
    /\ regs' = [q \in 2..5 |->
                  IF q < 2 + G THEN vbroadcastss(8, Both(M1A(rcx + q - 2)))
                  ELSE regs[q]]
    /\ rax' = rbp - band
    /\ rdx' = r11
    /\ r8' = 0
    /\ rcx' = IF G = 1 THEN rcx ELSE rcx + G
    /\ r11' = IF G = 1 THEN r11 ELSE r11 + G * rbx
    /\ log' = log \o [t \in 1..G |-> Ev("ldA", rcx + t - 1, {0})]
    /\ pc' = IF rbp - band < 0 THEN rest ELSE loop
    /\ UNCHANGED <<inputs, tileregs, rbp, rbx, r9, zmask, mask, C>>

M1AvxProcessRowLoop4 ==
    /\ pc = "ProcessRowLoop4" /\ variant = "M1Avx"
    /\ M1AvxRowLoop(4, 16, "ProcessColumnLoop4", "ProcessRemainingCountN4")

M1AvxProcessColumnLoop4 ==
    /\ pc = "ProcessColumnLoop4" /\ variant = "M1Avx"
    /\ LET ymm1 == vaddps(M1AvxDot(3, rdx, AllLanes(8)),
                          vandnps(zmask, LoadFrom(C, r8, AllLanes(8), 8)))
           ymm6 == vaddps(M1AvxDot(3, rdx + 8, AllLanes(8)),
                          vandnps(zmask, LoadFrom(C, r8 + 8, AllLanes(8), 8)))
       IN /\ C' = StoreRows(C, <<<<r8, ymm1>>, <<r8 + 8, ymm6>>>>, AllLanes(8))
          /\ log' = log
                \o [t \in 1..8 |->
                      Ev("ldB", rdx + ((t - 1) \div 2) * rbx + 8 * ((t - 1) % 2),
                         AllLanes(8))]
                \o <<Ev("ld", r8, AllLanes(8)), Ev("ld", r8 + 8, AllLanes(8)),
                     Ev("st", r8, AllLanes(8)), Ev("st", r8 + 8, AllLanes(8))>>
    /\ rdx' = rdx + 16
    /\ r8' = r8 + 16
    /\ rax' = rax - 16
    /\ pc' = IF rax - 16 >= 0 THEN "ProcessColumnLoop4" ELSE "ProcessRemainingCountN4"
    /\ UNCHANGED <<inputs, tileregs, r11, rbp, rbx, r9, rcx, zmask, mask, regs>>

\* ProcessRemainingCountN4 .. ProcessedRemainingCountN4: a full 8-column block
\* if bit 3 of the remaining count is set, a masked block if its low 3 bits
\* are not zero; then the zeroing mask is cleared and CountK steps by 4
M1AvxProcessRemainingCountN4 ==
    /\ pc = "ProcessRemainingCountN4" /\ variant = "M1Avx"
    /\ LET full == rax % 16 # 0 /\ Bit(rax, 3) = 1
           small == rax % 16 # 0 /\ rax % 8 # 0
           C1 == IF full THEN M1AvxBlock(4, C, r8, rdx, AllLanes(8)) ELSE C
           p8 == IF full THEN r8 + 8 ELSE r8
           pdx == IF full THEN rdx + 8 ELSE rdx
       IN /\ C' = IF small THEN M1AvxBlock(4, C1, p8, pdx, mask) ELSE C1
          /\ log' = log
                \o (IF full THEN M1AvxBlockEv(4, r8, rdx, AllLanes(8)) ELSE <<>>)
                \o (IF small THEN M1AvxBlockEv(4, p8, pdx, mask) ELSE <<>>)
          /\ r8' = p8
          /\ rdx' = pdx
    /\ zmask' = SwitchToAccumulateMode(zmask)
    /\ r9' = r9 - 4
    /\ pc' = IF r9 - 4 >= 0 THEN "ProcessRowLoop4" ELSE "ProcessRemainingCountK"
    /\ UNCHANGED <<inputs, tileregs, r11, rbp, rbx, rcx, rax, mask, regs>>

M1AvxProcessRemainingCountK ==
    /\ pc = "ProcessRemainingCountK" /\ variant = "M1Avx"
    /\ pc' = IF Bit(r9, 1) = 1 THEN "ProcessRowLoop2"
             ELSE IF Bit(r9, 0) = 1 THEN "ProcessRowLoop1"
             ELSE "ExitKernel"
    /\ UNCHANGED <<inputs, tileregs, m1regs, r11, rbp, r8, rbx, rdx, mask, regs, C, log>>

M1AvxProcessRowLoop2 ==
    /\ pc = "ProcessRowLoop2" /\ variant = "M1Avx"
    /\ M1AvxRowLoop(2, 8, "ProcessColumnLoop2", "ProcessRemainingCountN2")

\* ProcessColumnLoop2 / ProcessColumnLoop1: one full 8-column block
M1AvxColumnLoop(G, loop, rest) ==
    /\ C' = M1AvxBlock(G, C, r8, rdx, AllLanes(8))
    /\ log' = log \o M1AvxBlockEv(G, r8, rdx, AllLanes(8))
    /\ rdx' = rdx + 8
    /\ r8' = r8 + 8
    /\ rax' = rax - 8
    /\ pc' = IF rax - 8 >= 0 THEN loop ELSE rest
    /\ UNCHANGED <<inputs, tileregs, r11, rbp, rbx, r9, rcx, zmask, mask, regs>>

M1AvxProcessColumnLoop2 ==
    /\ pc = "ProcessColumnLoop2" /\ variant = "M1Avx"
    /\ M1AvxColumnLoop(2, "ProcessColumnLoop2", "ProcessRemainingCountN2")

\* ProcessRemainingCountN2 .. ProcessedRemainingCountN2: the zeroing mask is
\* cleared only on the way to ProcessRowLoop1
M1AvxProcessRemainingCountN2 ==
    /\ pc = "ProcessRemainingCountN2" /\ variant = "M1Avx"
    /\ C' = IF rax % 8 # 0 THEN M1AvxBlock(2, C, r8, rdx, mask) ELSE C
    /\ log' = log \o (IF rax % 8 # 0 THEN M1AvxBlockEv(2, r8, rdx, mask) ELSE <<>>)
    /\ zmask' = IF Bit(r9, 0) = 1 THEN SwitchToAccumulateMode(zmask) ELSE zmask
    /\ pc' = IF Bit(r9, 0) = 1 THEN "ProcessRowLoop1" ELSE "ExitKernel"
    /\ UNCHANGED <<inputs, tileregs, r11, rbp, r8, rbx, rdx, r9, rcx, rax, mask, regs>>

M1AvxProcessRowLoop1 ==
    /\ pc = "ProcessRowLoop1" /\ variant = "M1Avx"
    /\ M1AvxRowLoop(1, 8, "ProcessColumnLoop1", "ProcessRemainingCountN1")

M1AvxProcessColumnLoop1 ==
    /\ pc = "ProcessColumnLoop1" /\ variant = "M1Avx"
    /\ M1AvxColumnLoop(1, "ProcessColumnLoop1", "ProcessRemainingCountN1")

M1AvxProcessRemainingCountN1 ==
    /\ pc = "ProcessRemainingCountN1" /\ variant = "M1Avx"
    /\ C' = IF rax % 8 # 0 THEN M1AvxBlock(1, C, r8, rdx, mask) ELSE C
    /\ log' = log \o (IF rax % 8 # 0 THEN M1AvxBlockEv(1, r8, rdx, mask) ELSE <<>>)
    /\ pc' = "ExitKernel"
    /\ UNCHANGED <<inputs, tileregs, m1regs, r11, rbp, r8, rbx, rdx, mask, regs>>

\* ================================== MlasSgemmKernelM1TransposeBAvx (M = 1)
\* shuffles, each acting on the two 128-bit halves of a ymm register alike
vunpcklps(a, b) ==
    [i \in 0..7 |-> LET h == 4 * (i \div 4)
                    IN IF i % 2 = 0 THEN a[h + (i % 4) \div 2]
                                    ELSE b[h + (i % 4) \div 2]]

vunpckhps(a, b) ==
    [i \in 0..7 |-> LET h == 4 * (i \div 4)
                    IN IF i % 2 = 0 THEN a[h + 2 + (i % 4) \div 2]
                                    ELSE b[h + 2 + (i % 4) \div 2]]

vunpcklpd(a, b) ==
    [i \in 0..7 |-> LET h == 4 * (i \div 4)
                    IN IF (i % 4) < 2 THEN a[h + (i % 4)] ELSE b[h + (i % 4) - 2]]

vunpckhpd(a, b) ==
    [i \in 0..7 |-> LET h == 4 * (i \div 4)
                    IN IF (i % 4) < 2 THEN a[h + 2 + (i % 4)] ELSE b[h + (i % 4)]]

\* vhaddps a,a,a
vhaddps(a) ==
    [i \in 0..7 |-> LET h == 4 * (i \div 4)
                    IN IF i % 2 = 0 THEN PAdd(a[h], a[h + 1])
                                    ELSE PAdd(a[h + 2], a[h + 3])]

\* vextractf128 x,y,1 and the xmm (low half) view of a ymm register
vextractf128(a) == [i \in 0..3 |-> a[4 + i]]

xmm(a) == [i \in 0..3 |-> a[i]]

\* vmovhlps d,a,a
vmovhlps(a) == [i \in 0..3 |-> a[2 + (i % 2)]]

\* Output4x1Block: transpose the four accumulators and add them up, lane j of
\* the result being the sum of the 8 lanes of accumulator ymm(2+j)
Reduce4(R) ==
    LET ymm6 == vunpcklps(R[2], R[3])
        ymm1 == vunpckhps(R[2], R[3])
        ymm2 == vunpcklps(R[4], R[5])
        ymm3 == vunpckhps(R[4], R[5])
        ymm4 == vaddps(vaddps(vaddps(vunpcklpd(ymm6, ymm2), vunpckhpd(ymm6, ymm2)),
                              vunpcklpd(ymm1, ymm3)),
                       vunpckhpd(ymm1, ymm3))
    IN vaddps(xmm(ymm4), vextractf128(ymm4))

\* Output2x1Block: lanes 0 and 1 of the result are the sums of ymm2 and ymm3
Reduce2(R) ==
    LET ymm2 == vaddps(vunpckhps(R[2], R[3]), vunpcklps(R[2], R[3]))
        xmm2 == vaddps(xmm(ymm2), vextractf128(ymm2))
    IN vaddps(xmm2, vmovhlps(xmm2))

\* Output1x1Block: lane 0 of the result is the sum of ymm2
Reduce1(R) ==
    LET ymm2 == vhaddps(vhaddps(R[2]))
    IN vaddps(xmm(ymm2), vextractf128(ymm2))

MlasSgemmKernelM1TransposeBAvx ==
    /\ pc = "call" /\ variant = "M1TransposeBAvx"
    /\ rbx' = K + 1
    /\ r11' = 0 /\ rdx' = 0 /\ r8' = 0 /\ rcx' = 0 /\ rax' = 0
    /\ r9' = K
    /\ zmask' = ZeroingMask(4)
    /\ mask' = TailMask(K)
    /\ rbp' = N - 4
    /\ regs' = [q \in 2..5 |-> vbroadcastss(8, Both(NaN))]
    /\ log' = <<>>
    /\ pc' = IF N - 4 < 0 THEN "ProcessRemainingCountN" ELSE "ProcessRowLoop4"
    /\ UNCHANGED <<inputs, tileregs, C>>

\* ProcessRowLoop4 / 2 / 1: clear G accumulators, reload A, B and CountK,
\* advance B by G rows
M1TRowLoop(G, loop, rest) ==
    /\ regs' = [q \in 2..5 |-> IF q < 2 + G THEN vxorps(8) ELSE regs[q]]
    /\ rcx' = 0
    /\ rdx' = r11
    /\ rax' = r9 - 8
    /\ r11' = IF G = 1 THEN r11 ELSE r11 + G * rbx
    /\ pc' = IF r9 - 8 < 0 THEN rest ELSE loop
    /\ UNCHANGED <<inputs, tileregs, rbp, r8, rbx, r9, zmask, mask, C, log>>

\* one step of G dot products over 8 (or the masked last) columns of A and B
M1TAccumulate(G, lanes) ==
    LET ymm1 == LoadA(rcx, lanes)
    IN [q \in 2..5 |->
          IF q < 2 + G
          THEN vaddps(regs[q], vmulps(ymm1, LoadM1B(rdx + (q - 2) * rbx, lanes)))
          ELSE regs[q]]

M1TAccumulateEv(G, lanes) ==
    <<Ev("ldA", rcx, lanes)>>
        \o [t \in 1..G |-> Ev("ldB", rdx + (t - 1) * rbx, lanes)]

M1TColumnLoop(G, loop, rest) ==
    /\ regs' = M1TAccumulate(G, AllLanes(8))
    /\ log' = log \o M1TAccumulateEv(G, AllLanes(8))
    /\ rcx' = rcx + 8
    /\ rdx' = rdx + 8
    /\ rax' = rax - 8
    /\ pc' = IF rax - 8 >= 0 THEN loop ELSE rest
    /\ UNCHANGED <<inputs, tileregs, r11, rbp, r8, rbx, r9, zmask, mask, C>>

\* ProcessRemainingCountK<G> and Output<G>x1Block: the masked last columns,
\* the reduction, and the G results added to the old C under the zeroing mask
M1TOutput(G, sum) ==
    LET R == IF rax % 8 # 0 THEN M1TAccumulate(G, mask) ELSE regs
        new == vaddps(sum, vandnps(zmask, LoadFrom(C, r8, AllLanes(G), 4)))
    IN /\ regs' = R
       /\ C' = StoreRows(C, <<<<r8, new>>>>, AllLanes(G))
       /\ log' = log \o (IF rax % 8 # 0 THEN M1TAccumulateEv(G, mask) ELSE <<>>)
                     \o <<Ev("ld", r8, AllLanes(G)), Ev("st", r8, AllLanes(G))>>

M1TProcessRowLoop4 ==
    /\ pc = "ProcessRowLoop4" /\ variant = "M1TransposeBAvx"
    /\ M1TRowLoop(4, "ProcessColumnLoop4", "ProcessRemainingCountK4")

M1TProcessColumnLoop4 ==
    /\ pc = "ProcessColumnLoop4" /\ variant = "M1TransposeBAvx"
    /\ M1TColumnLoop(4, "ProcessColumnLoop4", "ProcessRemainingCountK4")

M1TProcessRemainingCountK4 ==
    /\ pc = "ProcessRemainingCountK4" /\ variant = "M1TransposeBAvx"
    /\ M1TOutput(4, Reduce4(IF rax % 8 # 0 THEN M1TAccumulate(4, mask) ELSE regs))
    /\ r8' = r8 + 4
    /\ rbp' = rbp - 4
    /\ pc' = IF rbp - 4 >= 0 THEN "ProcessRowLoop4" ELSE "ProcessRemainingCountN"
    /\ UNCHANGED <<inputs, tileregs, m1regs, r11, rbx, rdx, mask>>

\* a remaining-columns dispatch that tests bit 0 of CountN only
M1TProcessRemainingCountNWithoutPairs ==
    /\ pc = "ProcessRemainingCountN" /\ variant = "M1TransposeBAvx"
    /\ pc' = IF Bit(rbp, 0) = 1 THEN "ProcessRowLoop1" ELSE "ExitKernel"
    /\ UNCHANGED <<inputs, tileregs, m1regs, r11, rbp, r8, rbx, rdx, mask, regs, C, log>>

M1TProcessRemainingCountN ==
    /\ pc = "ProcessRemainingCountN" /\ variant = "M1TransposeBAvx"
    /\ pc' = IF Bit(rbp, 1) = 1 THEN "ProcessRowLoop2"
             ELSE IF Bit(rbp, 0) = 1 THEN "ProcessRowLoop1"
             ELSE "ExitKernel"
    /\ UNCHANGED <<inputs, tileregs, m1regs, r11, rbp, r8, rbx, rdx, mask, regs, C, log>>

M1TProcessRowLoop2 ==
    /\ pc = "ProcessRowLoop2" /\ variant = "M1TransposeBAvx"
    /\ M1TRowLoop(2, "ProcessColumnLoop2", "ProcessRemainingCountK2")

M1TProcessColumnLoop2 ==
    /\ pc = "ProcessColumnLoop2" /\ variant = "M1TransposeBAvx"
    /\ M1TColumnLoop(2, "ProcessColumnLoop2", "ProcessRemainingCountK2")

M1TProcessRemainingCountK2 ==
    /\ pc = "ProcessRemainingCountK2" /\ variant = "M1TransposeBAvx"
    /\ M1TOutput(2, Reduce2(IF rax % 8 # 0 THEN M1TAccumulate(2, mask) ELSE regs))
    /\ r8' = r8 + 2
    /\ pc' = IF Bit(rbp, 0) = 1 THEN "ProcessRowLoop1" ELSE "ExitKernel"
    /\ UNCHANGED <<inputs, tileregs, m1regs, r11, rbp, rbx, rdx, mask>>

M1TProcessRowLoop1 ==
    /\ pc = "ProcessRowLoop1" /\ variant = "M1TransposeBAvx"
    /\ M1TRowLoop(1, "ProcessColumnLoop1", "ProcessRemainingCountK1")

M1TProcessColumnLoop1 ==
    /\ pc = "ProcessColumnLoop1" /\ variant = "M1TransposeBAvx"
    /\ M1TColumnLoop(1, "ProcessColumnLoop1", "ProcessRemainingCountK1")

M1TProcessRemainingCountK1 ==
    /\ pc = "ProcessRemainingCountK1" /\ variant = "M1TransposeBAvx"
    /\ M1TOutput(1, Reduce1(IF rax % 8 # 0 THEN M1TAccumulate(1, mask) ELSE regs))
    /\ pc' = "ExitKernel"
    /\ UNCHANGED <<inputs, tileregs, m1regs, r11, rbp, r8, rbx, rdx, mask>>

\* the kernels that take CountM rows and return the rows handled
Tiled == {"Avx", "Fma3", "Avx512F"}

\* ExitKernel: vzeroupper, restore, return (r11 = the rows handled; the
\* M = 1 kernels return nothing)
ExitKernel ==
    /\ pc = "ExitKernel"
    /\ pc' = IF variant \in Tiled THEN "ret" ELSE "done"
    /\ UNCHANGED <<inputs, m1regs, rowsDone, calls, rc, r11, rbp, r8, rbx, r13, r14, rdx,
                   mask, regs, C, log>>

\* The caller's row loop: advance A and C by the rows the kernel handled and
\* call again while rows remain.
RowLoop ==
    /\ pc = "ret" /\ variant \in Tiled
    /\ rowsDone' = rowsDone + r11
    /\ calls' = Append(calls, r11)
    /\ pc' = IF rowsDone + r11 < M /\ Len(calls) < M THEN "call" ELSE "done"
    /\ UNCHANGED <<inputs, m1regs, rc, r11, rbp, r8, rbx, r13, r14, rdx, mask, regs, C, log>>

Variants == Tiled \cup {"M1Avx", "M1TransposeBAvx"}

Alphas == {2}

\* the tallest row tile and the native band width of each kernel
MaxRowsOf(v) ==
    CASE v = "Avx" -> 4 [] v = "Fma3" -> 6 [] v = "Avx512F" -> 12 [] OTHER -> 1

BandOf(v) ==
    CASE v = "Avx512F" -> 32 [] v = "M1TransposeBAvx" -> 4 [] OTHER -> 16

\* the CountK below which a kernel's K loop has not yet taken each of its
\* paths: 4 + 2 + 1 rows for M1Avx, 8 + 1 columns for M1TransposeBAvx
KBaseOf(v) ==
    CASE v = "M1Avx" -> 5 [] v = "M1TransposeBAvx" -> 8 [] OTHER -> 0

\* beta as the caller has it: the tiled kernels get it as ZeroMode
Betas(v) == IF v \in Tiled THEN {0, 1} ELSE {0, 1, 2}

\* the parts of the program a specification does not exercise stay as they
\* are before their first use
ParIdle == tid = 0 /\ other = <<>>

GemmIdle == history = <<>>

SgemmIdle == args = <<>> /\ sgemm = <<>>

TypesIdle == tcall = <<>>

MatMulIdle == matmul = <<>>

FusionIdle == fusion = <<>>

UpsampleIdle == upsample = <<>>

UnsqIdle == unsq = <<>>

InfoIdle == info = <<>>

RestIdle == MatMulIdle /\ FusionIdle /\ UpsampleIdle /\ UnsqIdle /\ InfoIdle

rest == <<matmul, fusion, upsample, unsq, info>>

OnceIdle ==
    /\ cpu = <<>> /\ token = "unset" /\ threads = <<>>
    /\ once = [flag |-> "uninitialized", published |-> 0]

Init ==
    /\ ParIdle /\ GemmIdle /\ SgemmIdle /\ TypesIdle /\ RestIdle /\ OnceIdle
    /\ variant \in Variants
    /\ \/ /\ M \in 1..(IF variant \in Tiled THEN MaxRowsOf(variant) + ExtraM ELSE 1)
          /\ N \in 1..(BandOf(variant) + BandOf(variant) \div 2 + ExtraN)
          /\ K \in 1..(KBaseOf(variant) + MaxK)
          /\ Alpha \in Alphas
          /\ Beta \in Betas(variant)
       \/ /\ variant \in Tiled
          /\ Example
          /\ Beta = 0
    /\ ZeroMode = (Beta = 0)
    /\ ldc = N + 1
    /\ rowsDone = 0
    /\ calls = <<>>
    /\ pc = "call"
    /\ rc = 0 /\ r11 = 0 /\ rbp = 0 /\ r8 = 0 /\ rbx = 0 /\ r13 = 0 /\ r14 = 0
    /\ rdx = 0 /\ r9 = 0 /\ rcx = 0 /\ rax = 0
    /\ zmask = {}
    /\ mask = {}
    /\ regs = <<>>
    /\ C = [a \in 0..(M * ldc - 1) |-> InitC(a)]
    /\ log = <<>>

Next ==
    \/ MlasGemmFloatKernelAvx
    \/ AvxProcessNextColumnLoop16xN
    \/ AvxStore16xNBlock
    \/ AvxProcessRemainingCountN
    \/ AvxStore8xNBlock
    \/ AvxOutputMasked16xNBlock
    \/ AvxOutputMasked8xNBlock
    \/ MlasGemmFloatKernelFma3
    \/ Fma3ProcessNextColumnLoop16xN
    \/ Fma3Store16xNBlock
    \/ Fma3ProcessRemainingCountN
    \/ Fma3Store8xNBlock
    \/ Fma3OutputMasked16xNBlock
    \/ Fma3OutputMasked8xNBlock
    \/ MlasGemmFloatKernelAvx512F
    \/ Avx512FProcessNextColumnLoop32xN
    \/ Avx512FStore32xNBlock
    \/ Avx512FOutput16xNBlock
    \/ Avx512FProcessRemainingCountN
    \/ MlasSgemmKernelM1Avx
    \/ M1AvxProcessRowLoop4
    \/ M1AvxProcessColumnLoop4
    \/ M1AvxProcessRemainingCountN4
    \/ M1AvxProcessRemainingCountK
    \/ M1AvxProcessRowLoop2
    \/ M1AvxProcessColumnLoop2
    \/ M1AvxProcessRemainingCountN2
    \/ M1AvxProcessRowLoop1
    \/ M1AvxProcessColumnLoop1
    \/ M1AvxProcessRemainingCountN1
    \/ MlasSgemmKernelM1TransposeBAvx
    \/ M1TProcessRowLoop4
    \/ M1TProcessColumnLoop4
    \/ M1TProcessRemainingCountK4
    \/ M1TProcessRemainingCountN
    \/ M1TProcessRowLoop2
    \/ M1TProcessColumnLoop2
    \/ M1TProcessRemainingCountK2
    \/ M1TProcessRowLoop1
    \/ M1TProcessColumnLoop1
    \/ M1TProcessRemainingCountK1
    \/ ExitKernel
    \/ RowLoop

Spec == Init /\ [][Next]_vars

\* ======================================================= observations
\* the accesses of kind op that the running invocation has made so far
Events(op) == {n \in 1..Len(log) : log[n].op = op}

Covers(n, a) == (a - log[n].addr) \in log[n].lanes

Count(op, a) == Cardinality({n \in Events(op) : Covers(n, a)})

Touched(op) == UNION {{log[n].addr + i : i \in log[n].lanes} : n \in Events(op)}

\* a row-tiled kernel is between its entry and its return
Running == variant \in Tiled /\ pc \notin {"call", "done"}

\* the C elements of the rows the running invocation handles, columns < N
Tile == {(rowsDone + r) * ldc + j : r \in 0..(r11 - 1), j \in 0..(N - 1)}

\* the lanes of one vector register of the kernel
WidthOf(v) == IF v = "Avx512F" THEN 16 ELSE 8

\* the dot product of row i of A and column j of B
RefDot(i, j) ==
    LET S[k \in 0..K] ==
            IF k = 0 THEN 0 ELSE S[k - 1] + MatA(i, k - 1) * MatB(k - 1, j)
    IN S[K]

Max(S) == CHOOSE x \in S : \A y \in S : y <= x

RECURSIVE SumSeq(_)
SumSeq(s) == IF s = <<>> THEN 0 ELSE s[1] + SumSeq(Tail(s))

\* ============================================================== claims
\* C1: one invocation of a packed-B kernel stores, for each row it handles,
\* exactly the columns 0..CountN-1 of C, each once, and never a column at or
\* past CountN (nor any other row).  The log holds every store of the
\* invocation when it reaches ExitKernel.
C1_StoresExactlyTheTile ==
    (Running /\ pc = "ExitKernel") =>
        /\ Touched("st") \subseteq Tile
        /\ \A a \in Tile : Count("st", a) = 1

C1_Witness ==
    /\ pc = "ExitKernel" /\ variant = "Avx" /\ N = 17 /\ r11 = 4
    /\ \E n \in Events("st") : log[n].lanes = {0}

\* C2: with ZeroMode true no path of a packed-B kernel loads from C, and
\* every stored element is alpha times the accumulated product.
C2_ZeroModeNeverLoadsC ==
    (Running /\ ZeroMode) =>
        /\ Events("ld") = {}
        /\ pc = "ExitKernel" =>
              \A a \in Tile : C[a][1] = Alpha * RefDot(a \div ldc, a % ldc)

C2_Witness ==
    /\ pc = "ExitKernel" /\ variant = "Avx512F" /\ ZeroMode /\ N = 49
    /\ \E n \in Events("st") : log[n].lanes = {0}
    /\ \E n \in Events("st") : log[n].lanes = AllLanes(16)

\* C3: with ZeroMode false each C[i,j] of the tile ends as alpha * (A row i
\* dot B column j) plus the value it held at entry; that value is loaded
\* exactly once, before the store and under the store's own lane mask, and no
\* element at a column >= CountN is loaded.
C3_AccumulateReadsOnceThenStores ==
    (variant \in Tiled /\ ~ZeroMode) =>
        /\ pc = "call" =>
              \A a \in DOMAIN C : a \div ldc >= rowsDone => C[a] = InitC(a)
        /\ pc = "ExitKernel" =>
              /\ Touched("ld") \subseteq Tile
              /\ \A n \in Events("st") : \E m \in Events("ld") :
                    /\ m < n
                    /\ log[m].addr = log[n].addr
                    /\ log[m].lanes = log[n].lanes
              /\ \A a \in Tile :
                    /\ Count("ld", a) = 1
                    /\ C[a][1] = Alpha * RefDot(a \div ldc, a % ldc) + InitC(a)[1]

C3_Witness ==
    /\ pc = "ExitKernel" /\ variant = "Fma3" /\ ~ZeroMode /\ N = 25 /\ r11 = 6
    /\ \E n \in Events("ld") : log[n].lanes = {0}

\* C4: each packed-B kernel stores exactly the rows it returns, and returns
\* the largest row tile it has that is <= CountM: Avx 4 / 2 / 1 (3 gives 2),
\* Fma3 min(CountM, 6), Avx512F 12 / 6 (for 6..11) / CountM (for 1..5).
C4_ReturnsLargestTile ==
    (Running /\ pc = "ExitKernel") =>
        LET CountM == M - rowsDone
            tiles == CASE variant = "Avx" -> AvxTiles
                       [] variant = "Fma3" -> Fma3Tiles
                       [] OTHER -> Avx512FTiles
        IN /\ r11 = Max({t \in tiles : t <= CountM})
           /\ variant = "Avx" =>
                 r11 = (IF CountM >= 4 THEN 4 ELSE IF CountM >= 2 THEN 2 ELSE 1)
           /\ variant = "Fma3" => r11 = (IF CountM < 6 THEN CountM ELSE 6)
           /\ variant = "Avx512F" =>
                 r11 = (IF CountM >= 12 THEN 12 ELSE IF CountM >= 6 THEN 6 ELSE CountM)
           /\ {a \div ldc : a \in Touched("st")} = rowsDone..(rowsDone + r11 - 1)
           /\ r11 < CountM => CountM \notin tiles

C4_Witness ==
    pc = "ExitKernel" /\ variant = "Avx" /\ M - rowsDone = 3 /\ r11 = 2

\* C5: the row loop always gets back r with 1 <= r <= rows remaining, so the
\* remaining count ends at exactly 0, every row is handled by exactly one
\* call, the first call takes the tallest tile when M allows it, and the tile
\* heights never increase.
C5_RowLoopCoversEachRowOnce ==
    variant \in Tiled =>
        LET Upto(n) == SumSeq(SubSeq(calls, 1, n))
        IN /\ \A n \in 1..Len(calls) : calls[n] >= 1
           /\ SumSeq(calls) = rowsDone
           /\ rowsDone <= M
           /\ pc = "ret" => (1 <= r11 /\ r11 <= M - rowsDone)
           /\ pc = "done" =>
                 /\ rowsDone = M
                 /\ \A i \in 0..(M - 1) :
                       Cardinality({n \in 1..Len(calls) :
                                      Upto(n - 1) <= i /\ i < Upto(n)}) = 1
           /\ (calls # <<>> /\ M >= MaxRowsOf(variant)) =>
                 calls[1] = MaxRowsOf(variant)
           /\ \A n \in 1..(Len(calls) - 1) : calls[n + 1] <= calls[n]

C5_Witness ==
    pc = "done" /\ variant = "Avx512F" /\ M = 13 /\ calls = <<12, 1>>

\* C6: with beta = 0 the final C does not depend on the initial C: the two
\* runs, which differ only in the initial C (finite data against NaN), end
\* with the same value in every element of C, and that value is not NaN.
C6_BetaZeroIgnoresInitialC ==
    (pc = "done" /\ Beta = 0) =>
        \A i \in 0..(M - 1) : \A j \in 0..(N - 1) :
            /\ C[i * ldc + j][1] = C[i * ldc + j][2]
            /\ C[i * ldc + j][2] # NaN

C6_Witness ==
    /\ pc = "done" /\ variant = "M1TransposeBAvx" /\ Beta = 0 /\ N = 7 /\ K = 9
    /\ C[6][2] # NaN

\* C7: the mask of the masked band enables exactly the lowest (CountN mod
\* width) lanes, width being 8 for Avx and Fma3 and 16 for Avx512F; when that
\* remainder is 0 there is no masked band and every access uses all lanes.
C7_MaskIsCountNModWidth ==
    Running =>
        LET w == WidthOf(variant)
            m == N % w
            partial == {n \in Events("st") \cup Events("ld") :
                          log[n].lanes # AllLanes(w)}
        IN /\ \A n \in partial : m # 0 /\ log[n].lanes = 0..(m - 1)
           /\ pc = "ExitKernel" =>
                 /\ (m # 0) <=> (partial \cap Events("st") # {})
                 /\ m # 0 => mask = 0..(m - 1)

C7_Witness ==
    /\ pc = "ExitKernel" /\ variant = "Avx512F" /\ N = 21
    /\ mask = 0..4
    /\ \E n \in Events("st") : log[n].lanes = 0..4

\* C8 as stated: no load from packed B touches a column >= CountN.
C8_NeverLoadsPadding ==
    Running =>
        \A n \in Events("ldB") : \A i \in log[n].lanes : log[n].addr + i < N

\* C8 as the kernels are: whole vectors of packed B are loaded, padding
\* included, but what comes from padding (NaN here) never reaches a stored
\* element of C.
C8_PaddingNeverReachesC ==
    variant \in Tiled => \A a \in DOMAIN C : C[a][1] # NaN

C8_Witness ==
    /\ pc = "ExitKernel" /\ variant = "Avx" /\ N = 9 /\ r11 = 2
    /\ \E n \in Events("ldB") : 15 \in {log[n].addr + i : i \in log[n].lanes}
    /\ Events("st") # {}

\* C9: the stores to each row go in strictly increasing column order: full
\* native bands, then at most one full half-width band, then at most one
\* masked band, which is the last store of the invocation.
C9_BandsInOrder ==
    (Running /\ pc = "ExitKernel") =>
        LET w == WidthOf(variant)
            B == Events("ldB")
            St == Events("st")
            full(n) == log[n].lanes = AllLanes(w)
        IN /\ \A m \in St : \A n \in St :
                 (m < n /\ ~full(m)) =>
                    /\ log[n].lanes = log[m].lanes
                    /\ log[n].addr % ldc = log[m].addr % ldc
           /\ \A r \in rowsDone..(rowsDone + r11 - 1) :
                 LET s == SelectSeq(log, LAMBDA e : e.op = "st" /\ e.addr \div ldc = r)
                     passes(b) ==
                        LET nxt == IF \E c \in B : c > b
                                   THEN CHOOSE c \in B : c > b /\ \A d \in B : d > b => c <= d
                                   ELSE Len(log) + 1
                        IN {n \in St : b < n /\ n < nxt /\ log[n].addr \div ldc = r}
                     f(b) == Cardinality({n \in passes(b) : full(n)})
                     k(b) == Cardinality({n \in passes(b) : ~full(n)})
                 IN /\ s # <<>> /\ s[1].addr = r * ldc
                    /\ \A n \in 1..(Len(s) - 1) :
                          s[n].lanes = AllLanes(w) /\ s[n + 1].addr = s[n].addr + w
                    /\ \A b \in B :
                          IF b # Max(B)
                          THEN log[b].lanes = AllLanes(2 * w) /\ f(b) = 2 /\ k(b) = 0
                          ELSE IF log[b].lanes = AllLanes(2 * w)
                          THEN (f(b) = 2 /\ k(b) = 0) \/ (f(b) = 1 /\ k(b) = 1)
                          ELSE log[b].lanes = AllLanes(w) /\ f(b) + k(b) = 1

C9_Witness ==
    /\ pc = "ExitKernel" /\ variant = "Avx" /\ N = 25 /\ r11 = 4
    /\ \E n \in Events("st") : log[n].lanes = {0} /\ log[n].at = "OutputMasked8xNBlock"
    /\ \E n \in Events("st") : log[n].at = "Store16xNBlock"
    /\ \E n \in Events("st") : log[n].at = "OutputMasked16xNBlock"

\* C10: MlasSgemmKernelM1Avx takes the rows of B in groups of 4, then at most
\* one group of 2, then at most one group of 1; the Beta = 0 zeroing mask is
\* in force for the first group only, so each k in 0..CountK-1 contributes
\* exactly once to every output column.
C10_FirstGroupZeroesLaterAccumulate ==
    variant = "M1Avx" =>
        LET A == SelectSeq(log, LAMBDA e : e.op = "ldA")
            n4 == 4 * (K \div 4)
            n2 == IF K % 4 >= 2 THEN 2 ELSE 0
            blending == {"ProcessColumnLoop4", "ProcessRemainingCountN4",
                         "ProcessColumnLoop2", "ProcessRemainingCountN2",
                         "ProcessColumnLoop1", "ProcessRemainingCountN1"}
            first == \A n \in 1..Len(A) : A[n].at = A[1].at
        IN /\ \A n \in 1..Len(A) :
                 /\ A[n].addr = n - 1
                 /\ A[n].at = IF n <= n4 THEN "ProcessRowLoop4"
                              ELSE IF n <= n4 + n2 THEN "ProcessRowLoop2"
                              ELSE "ProcessRowLoop1"
           /\ Len(A) <= K
           /\ zmask # {} => (Beta = 0 /\ Len(A) <= 4 /\ first)
           /\ (pc \in blending /\ Len(A) <= 4 /\ first /\ Beta = 0) =>
                 zmask = AllLanes(8)
           /\ (pc \in blending /\ ~(Len(A) <= 4 /\ first)) => zmask = {}
           /\ pc = "done" =>
                 /\ Len(A) = K
                 /\ \A j \in 0..(N - 1) :
                       C[j][1] = RefDot(0, j) + (IF Beta = 0 THEN 0 ELSE InitC(j)[1])

C10_Witness ==
    /\ pc = "done" /\ variant = "M1Avx" /\ K = 7 /\ Beta = 0 /\ N = 25
    /\ Cardinality(Events("ldA")) = 7

\* C11 as stated: the rows handled by an invocation are one of 1, 2, 3, 4, 6
\* or 12 and never exceed the variant's ceiling (4 / 6 / 12).
C11_RowsInOneTwoThreeFourSixTwelve ==
    Running =>
        /\ r11 \in {1, 2, 3, 4, 6, 12}
        /\ r11 <= MaxRowsOf(variant)

\* C11: the rows handled by an invocation never exceed the variant's ceiling
\* (4 for Avx, 6 for Fma3, 12 for Avx512F) and are the height of the
\* ProcessCountM instance that ran: 1, 2 or 4 for Avx; 1..6 for Fma3, five
\* included; 1..6 or 12 for Avx512F.
C11_RowsWithinCeilingFiveIncluded ==
    /\ Running =>
          /\ 1 <= r11 /\ r11 <= MaxRowsOf(variant)
          /\ r11 = rc
          /\ r11 \in (CASE variant = "Avx" -> {1, 2, 4}
                        [] variant = "Fma3" -> {1, 2, 3, 4, 5, 6}
                        [] OTHER -> {1, 2, 3, 4, 5, 6, 12})
    /\ variant \in Tiled =>
          \A n \in 1..Len(calls) : calls[n] \in {1, 2, 3, 4, 5, 6, 12}

C11_Witness ==
    /\ pc = "ExitKernel" /\ variant = "Fma3" /\ M - rowsDone = 5 /\ r11 = 5
    /\ {a \div ldc : a \in Touched("st")} = rowsDone..(rowsDone + 4)

\* ============================================ two invocations at one time
\* Two threads each make one invocation of the same kernel on the same A, B
\* and C: the first on the rows from 0, the second on the rows that follow the
\* first one's tile.  Registers and the stack frame belong to the thread; C
\* is the memory they share.  The thread that is not running is kept in
\* `other` and a switch may come between any two blocks.
Frame ==
    [rowsDone |-> rowsDone, calls |-> calls, pc |-> pc, rc |-> rc, r11 |-> r11,
     rbp |-> rbp, r8 |-> r8, rbx |-> rbx, r13 |-> r13, r14 |-> r14, rdx |-> rdx,
     r9 |-> r9, rcx |-> rcx, rax |-> rax, zmask |-> zmask, mask |-> mask,
     regs |-> regs, log |-> log]

\* the same as a tuple
frame ==
    <<rowsDone, calls, pc, rc, r11, rbp, r8, rbx, r13, r14, rdx, r9, rcx, rax,
      zmask, mask, regs, log>>

\* a thread about to call the kernel with C (and A) advanced to `row`
FreshFrame(row) ==
    [rowsDone |-> row, calls |-> <<>>, pc |-> "call", rc |-> 0, r11 |-> 0,
     rbp |-> 0, r8 |-> 0, rbx |-> 0, r13 |-> 0, r14 |-> 0, rdx |-> 0,
     r9 |-> 0, rcx |-> 0, rax |-> 0, zmask |-> {}, mask |-> {},
     regs |-> <<>>, log |-> <<>>]

\* f is what the running thread's registers hold
Holds(f) ==
    /\ rowsDone = f.rowsDone /\ calls = f.calls /\ pc = f.pc /\ rc = f.rc
    /\ r11 = f.r11 /\ rbp = f.rbp /\ r8 = f.r8 /\ rbx = f.rbx /\ r13 = f.r13
    /\ r14 = f.r14 /\ rdx = f.rdx /\ r9 = f.r9 /\ rcx = f.rcx /\ rax = f.rax
    /\ zmask = f.zmask /\ mask = f.mask /\ regs = f.regs /\ log = f.log

\* the processor leaves the running thread and takes up the other one
Switch ==
    /\ other # <<>>
    /\ other.pc # "ret"
    /\ other' = Frame
    /\ tid' = 1 - tid
    /\ rowsDone' = other.rowsDone /\ calls' = other.calls /\ pc' = other.pc
    /\ rc' = other.rc /\ r11' = other.r11 /\ rbp' = other.rbp /\ r8' = other.r8
    /\ rbx' = other.rbx /\ r13' = other.r13 /\ r14' = other.r14
    /\ rdx' = other.rdx /\ r9' = other.r9 /\ rcx' = other.rcx
    /\ rax' = other.rax /\ zmask' = other.zmask /\ mask' = other.mask
    /\ regs' = other.regs /\ log' = other.log
    /\ UNCHANGED <<kargs, C, history, sgemmvars, tcall, oncevars, rest>>

\* r11 on return from the kernel of variant v
RowsHandledOf(v, CountM) ==
    CASE v = "Avx" -> AvxRowsHandled(CountM)
      [] v = "Fma3" -> Fma3RowsHandled(CountM)
      [] OTHER -> Avx512FRowsHandled(CountM)

\* the CountN that take each path through the column loop: a masked half
\* band, a full half band, a masked band, a full band, and a full band
\* followed by a masked one
EdgeN(v) ==
    {1, BandOf(v) \div 2, BandOf(v) - 1, BandOf(v),
     BandOf(v) + BandOf(v) \div 2 + ExtraN}

InitPar ==
    /\ GemmIdle /\ SgemmIdle /\ TypesIdle /\ RestIdle /\ OnceIdle
    /\ variant \in Tiled
    /\ M \in {m \in 2..(MaxRowsOf(variant) + ExtraM) : RowsHandledOf(variant, m) < m}
    /\ N \in EdgeN(variant)
    /\ K \in 1..MaxK
    /\ Alpha \in Alphas
    /\ Beta \in Betas(variant)
    /\ ZeroMode = (Beta = 0)
    /\ ldc = N + 1
    /\ tid = 0
    /\ other = FreshFrame(RowsHandledOf(variant, M))
    /\ Holds(FreshFrame(0))
    /\ C = [a \in 0..(M * ldc - 1) |-> InitC(a)]

NextPar ==
    \/ MlasGemmFloatKernelAvx
    \/ AvxProcessNextColumnLoop16xN
    \/ AvxStore16xNBlock
    \/ AvxProcessRemainingCountN
    \/ AvxStore8xNBlock
    \/ AvxOutputMasked16xNBlock
    \/ AvxOutputMasked8xNBlock
    \/ MlasGemmFloatKernelFma3
    \/ Fma3ProcessNextColumnLoop16xN
    \/ Fma3Store16xNBlock
    \/ Fma3ProcessRemainingCountN
    \/ Fma3Store8xNBlock
    \/ Fma3OutputMasked16xNBlock
    \/ Fma3OutputMasked8xNBlock
    \/ MlasGemmFloatKernelAvx512F
    \/ Avx512FProcessNextColumnLoop32xN
    \/ Avx512FStore32xNBlock
    \/ Avx512FOutput16xNBlock
    \/ Avx512FProcessRemainingCountN
    \/ ExitKernel
    \/ Switch

SpecPar == InitPar /\ [][NextPar]_vars

\* the C elements a log says were stored
StoresOf(l) ==
    UNION {{l[n].addr + i : i \in l[n].lanes} :
             n \in {m \in 1..Len(l) : l[m].op = "st"}}

\* the C elements of the tile of the invocation with frame f
TileOf(f) == {(f.rowsDone + r) * ldc + j : r \in 0..(f.r11 - 1), j \in 0..(N - 1)}

\* what one invocation alone leaves in element a of its tile
Alone(a) ==
    LET dot == Alpha * RefDot(a \div ldc, a % ldc)
    IN IF ZeroMode THEN Both(dot) ELSE <<dot + InitC(a)[1], NaN>>

\* C12: two invocations on the row tiles that follow each other, run at the
\* same time with a switch possible between any two blocks.  When both have
\* returned, the log of each holds every store it made: each stored only into
\* its own rows 0..rowsHandled-1 and columns 0..CountN-1, no element was
\* stored by both, and every element of either tile holds what its invocation
\* leaves when run alone, the rest of C being untouched.  The thread that is
\* not running keeps the C pointer it was started with.
C12_DisjointInvocationsDoNotInterfere ==
    /\ other.rowsDone = (IF tid = 0 THEN RowsHandledOf(variant, M) ELSE 0)
    /\ rowsDone = (IF tid = 1 THEN RowsHandledOf(variant, M) ELSE 0)
    /\ (pc = "ret" /\ other.pc = "ret") =>
          /\ StoresOf(log) \subseteq TileOf(Frame)
          /\ StoresOf(other.log) \subseteq TileOf(other)
          /\ StoresOf(log) \cap StoresOf(other.log) = {}
          /\ \A a \in DOMAIN C :
                C[a] = IF a \in TileOf(Frame) \cup TileOf(other)
                       THEN Alone(a) ELSE InitC(a)

\* the second thread has stored its tile and returned while the first, which
\* has stored its first band, is still in its column loop
C12_Witness ==
    /\ variant = "Avx512F" /\ M = 13 /\ N = 49 /\ ~ZeroMode
    /\ tid = 0 /\ r11 = 12 /\ pc \notin {"call", "ExitKernel", "ret"}
    /\ other.pc = "ret" /\ other.r11 = 1
    /\ C[12 * ldc + 48] = Alone(12 * ldc + 48)
    /\ C[0] = Alone(0)
    /\ C[48] = InitC(48)

\* ================================================== the capability token
\* threads that make their first call into the library at the same time
NThreads == 2
\* reads of the token each thread makes once it is initialized
MaxReads == 2

Tokens == {"baseline", "avx", "avx2fma3", "avx512f"}

\* DetectCapability: the forced variant when the override names one, else
\* the best instruction set the CPU has; it never fails
DetectCapability(c) == IF c.override \in Tokens THEN c.override ELSE c.features

\* a barrier that lets every thread that finds the token unpublished detect
MayInitializeUnlessDone(flag) == flag # "done"

\* the initialize-once barrier: only the thread that finds it untouched
\* initializes
MayInitialize(flag) == flag = "uninitialized"

\* everything but the kernels' and the capability state
KernelIdle ==
    /\ variant = "none" /\ M = 0 /\ N = 0 /\ K = 0 /\ Alpha = 0 /\ Beta = 0
    /\ ZeroMode = FALSE /\ ldc = 0 /\ C = <<>>
    /\ Holds(FreshFrame(0))

notonce == <<kargs, frame, C, parvars, history, sgemmvars, tcall, rest>>

\* first call of thread t: the barrier admits it as the initializer, or it
\* finds the token published; while another thread initializes it waits
EnterLibrary(t) ==
    /\ threads[t].pc = "start"
    /\ \/ /\ MayInitialize(once.flag)
          /\ once' = [once EXCEPT !.flag = "running"]
          /\ threads' = [threads EXCEPT ![t].pc = "detect"]
       \/ /\ once.flag = "done"
          /\ threads' = [threads EXCEPT ![t].pc = "use"]
          /\ once' = once
    /\ UNCHANGED <<cpu, token, notonce>>

\* the initializer inspects the CPU and stores the token
Detect(t) ==
    /\ threads[t].pc = "detect"
    /\ token' = DetectCapability(cpu)
    /\ threads' = [threads EXCEPT ![t].pc = "publish"]
    /\ UNCHANGED <<cpu, once, notonce>>

\* the initializer opens the barrier: the token is published
Publish(t) ==
    /\ threads[t].pc = "publish"
    /\ once' = [flag |-> "done", published |-> once.published + 1]
    /\ threads' = [threads EXCEPT ![t].pc = "use"]
    /\ UNCHANGED <<cpu, token, notonce>>

\* a later read of the token, to pick the kernel variant
ReadToken(t) ==
    /\ threads[t].pc = "use"
    /\ Len(threads[t].seen) < MaxReads
    /\ threads' = [threads EXCEPT ![t].seen = Append(@, token)]
    /\ UNCHANGED <<cpu, token, once, notonce>>

InitOnce ==
    /\ KernelIdle /\ ParIdle /\ GemmIdle /\ SgemmIdle /\ TypesIdle /\ RestIdle
    /\ cpu \in [features : Tokens, override : Tokens \cup {"none", "bogus"}]
    /\ token = "unset"
    /\ once = [flag |-> "uninitialized", published |-> 0]
    /\ threads = [t \in 1..NThreads |-> [pc |-> "start", seen |-> <<>>]]

NextOnce ==
    \E t \in 1..NThreads :
        \/ EnterLibrary(t)
        \/ Detect(t)
        \/ Publish(t)
        \/ ReadToken(t)

SpecOnce == InitOnce /\ [][NextOnce]_vars

\* C13: whatever the order in which the threads make their first call, the
\* token is detected and published once; until then it is read by nobody,
\* and from then on it is DetectCapability's result and every read by every
\* thread has returned that value.
C13_TokenInitializedOnce ==
    /\ once.published <= 1
    /\ Cardinality({t \in DOMAIN threads : threads[t].pc \in {"detect", "publish"}}) <= 1
    /\ once.flag = "done" <=> once.published = 1
    /\ once.flag = "done" => token = DetectCapability(cpu)
    /\ token \in {"unset", DetectCapability(cpu)}
    /\ \A t \in DOMAIN threads :
          /\ threads[t].pc = "use" => once.flag = "done"
          /\ \A n \in 1..Len(threads[t].seen) :
                threads[t].seen[n] = DetectCapability(cpu)

\* both threads started before the token existed, one initialized it, and
\* both have read it MaxReads times
C13_Witness ==
    /\ once.published = 1
    /\ cpu.features = "avx512f" /\ cpu.override = "bogus"
    /\ \A t \in DOMAIN threads :
          threads[t].seen = [n \in 1..MaxReads |-> "avx512f"]

\* ===================================================== the SGEMM driver
\* calls of Gemm the caller makes on the same A, B and C
GemmCalls == 2

\* beta of the first call: zero, one, and a value that is neither (nor alpha)
GemmBetas == {0, 1, 3}

\* the registers a driver step leaves alone
gpr == <<rc, r11, rbp, r8, rbx, r13, r14, rdx, r9, rcx, rax, zmask, mask, regs, log>>

\* the driver's pre-scaling: every element of the M x N matrix times beta
ScaleC(mem, beta) ==
    [a \in DOMAIN mem |->
        IF a % ldc < N THEN PMul(Both(beta), mem[a]) ELSE mem[a]]

\* zeroMode as the driver derives it from beta
ZeroModeOf(beta) == beta = 0

\* Gemm: beta is applied before the first kernel invocation.  beta = 0:
\* zeroMode; beta = 1: accumulate; any other beta: C is scaled by beta here
\* and the kernel accumulates.
Gemm ==
    /\ pc = "Gemm"
    /\ history' = Append(history, [beta |-> Beta, C |-> C])
    /\ C' = IF Beta \in {0, 1} THEN C ELSE ScaleC(C, Beta)
    /\ ZeroMode' = ZeroModeOf(Beta)
    /\ rowsDone' = 0
    /\ calls' = <<>>
    /\ pc' = "call"
    /\ UNCHANGED <<variant, M, N, K, Alpha, Beta, ldc, gpr, parvars, sgemmvars,
                   tcall, oncevars, rest>>

\* the caller calls Gemm again on the C it got back, with beta = 1
CallGemmAgain ==
    /\ pc = "done"
    /\ Len(history) < GemmCalls
    /\ history # <<>>
    /\ Beta' = 1
    /\ pc' = "Gemm"
    /\ UNCHANGED <<variant, M, N, K, Alpha, ZeroMode, ldc, rowsDone, calls, gpr, C,
                   host>>

InitGemm ==
    /\ ParIdle /\ SgemmIdle /\ TypesIdle /\ RestIdle /\ OnceIdle
    /\ variant \in {"Avx", "Fma3"}
    /\ M \in 1..(MaxRowsOf(variant) + ExtraM)
    /\ N \in EdgeN(variant)
    /\ K \in 1..MaxK
    /\ Alpha \in Alphas
    /\ Beta \in GemmBetas
    /\ ZeroMode = FALSE
    /\ ldc = N + 1
    /\ history = <<>>
    /\ Holds([FreshFrame(0) EXCEPT !.pc = "Gemm"])
    /\ C = [a \in 0..(M * ldc - 1) |-> InitC(a)]

NextGemm ==
    \/ Gemm
    \/ MlasGemmFloatKernelAvx
    \/ AvxProcessNextColumnLoop16xN
    \/ AvxStore16xNBlock
    \/ AvxProcessRemainingCountN
    \/ AvxStore8xNBlock
    \/ AvxOutputMasked16xNBlock
    \/ AvxOutputMasked8xNBlock
    \/ MlasGemmFloatKernelFma3
    \/ Fma3ProcessNextColumnLoop16xN
    \/ Fma3Store16xNBlock
    \/ Fma3ProcessRemainingCountN
    \/ Fma3Store8xNBlock
    \/ Fma3OutputMasked16xNBlock
    \/ Fma3OutputMasked8xNBlock
    \/ ExitKernel
    \/ RowLoop
    \/ CallGemmAgain

SpecGemm == InitGemm /\ [][NextGemm]_vars

\* alpha * op(A) * op(B) + beta * c, in both runs; a NaN in c is multiplied
\* by beta unless beta is 0, when c is not used at all
GemmOf(a, beta, c) ==
    LET dot == Alpha * RefDot(a \div ldc, a % ldc)
    IN IF beta = 0 THEN Both(dot) ELSE PAdd(Both(dot), PMul(Both(beta), c))

\* C14: the driver fixes ZeroMode from beta before the first kernel
\* invocation (true exactly for beta = 0); with beta = 0 no invocation loads
\* C; with beta other than 0 and 1 the C the first invocation meets is
\* beta times the caller's; and when Gemm has returned every C[i,j] is
\* alpha * (A row i dot B column j) + beta * (its value before the call), the
\* elements outside the M x N matrix being as they were.
C14_BetaMappedToZeroMode ==
    history # <<>> =>
        LET h == history[Len(history)]
        IN /\ pc # "Gemm" => ZeroMode = (h.beta = 0)
           /\ h.beta = 0 => Events("ld") = {}
           /\ (pc = "call" /\ rowsDone = 0) =>
                 \A a \in DOMAIN C :
                    C[a] = IF h.beta \in {0, 1} \/ a % ldc >= N THEN h.C[a]
                           ELSE PMul(Both(h.beta), h.C[a])
           /\ pc = "done" =>
                 \A a \in DOMAIN C :
                    C[a] = IF a % ldc < N THEN GemmOf(a, h.beta, h.C[a])
                           ELSE h.C[a]

C14_Witness ==
    /\ pc = "done" /\ Len(history) = 1 /\ Beta = 3 /\ variant = "Avx"
    /\ M = 5 /\ N = 25 /\ K = 2
    /\ C[4 * ldc + 24][1] = Alpha * RefDot(4, 24) + 3 * InitC(4 * ldc + 24)[1]
    /\ C[4 * ldc + 24][2] = NaN

\* C17: a second Gemm call with beta = 1 on the same A, B and alpha adds
\* alpha * A * B once to every element of the C the first call left, and
\* changes nothing else: after a first call with beta = 1 the result is
\* alpha*A*B + (alpha*A*B + C_initial); after a first call with beta = 0 it
\* is twice alpha*A*B whatever C held at first.
C17_SecondCallAccumulatesOnce ==
    (pc = "done" /\ Len(history) = 2) =>
        /\ history[2].beta = 1 /\ ~ZeroMode
        /\ \A a \in DOMAIN C :
              LET dot == Alpha * RefDot(a \div ldc, a % ldc)
              IN IF a % ldc >= N THEN C[a] = InitC(a)
                 ELSE /\ C[a] = PAdd(Both(dot), history[2].C[a])
                      /\ history[2].C[a] = GemmOf(a, history[1].beta, InitC(a))
                      /\ history[1].beta = 1 =>
                            C[a][1] = dot + (dot + InitC(a)[1])
                      /\ history[1].beta = 0 => C[a] = Both(2 * dot)

C17_Witness ==
    /\ pc = "done" /\ Len(history) = 2 /\ history[1].beta = 1
    /\ variant = "Fma3" /\ M = 7 /\ N = 25 /\ K = 2
    /\ C[6 * ldc + 24][1]
          = 2 * Alpha * RefDot(6, 24) + InitC(6 * ldc + 24)[1]
    /\ Alpha * RefDot(6, 24) # 0

\* ================================== tvm.contrib.onnxruntime.sgemm_cpu
\* the largest rank of A and of B
MaxRank == 3

\* The shapes of rank n.  A dimension is negative, zero, or a positive size
\* that tells its position (and A from B, by `base`).
ShapesOf(n, base) ==
    {[d \in 1..n |-> IF c[d] = "pos" THEN base + d ELSE IF c[d] = "zero" THEN 0 ELSE 0 - 1] :
        c \in [1..n -> {"pos", "zero", "neg"}]}

Shapes(base) == UNION {ShapesOf(n, base) : n \in 1..MaxRank}

\* A->shape[d], B->shape[d] with d counted from 0
Dim(shape, d) == shape[d + 1]

RECURSIVE Flatten(_, _)
\* M = 1; for (d = 0; d < A->ndim - 1; ++d) M *= A->shape[d];
Flatten(shape, d) ==
    IF d >= Len(shape) - 1 THEN 1 ELSE Dim(shape, d) * Flatten(shape, d + 1)

\* M, N and K as sgemm_cpu derives them
DimsOf(a) ==
    LET A == a.A
        B == a.B
    IN IF Len(A) = 1
       THEN [M |-> 1, N |-> Dim(B, IF a.trans_b THEN 0 ELSE Len(B) - 1), K |-> Dim(A, 0)]
       ELSE IF Len(B) = 1
       THEN [M |-> Flatten(A, 0), N |-> 1, K |-> Dim(A, Len(A) - 1)]
       ELSE [M |-> IF a.trans_a THEN Dim(A, 1) ELSE Flatten(A, 0),
             N |-> Dim(B, IF a.trans_b THEN Len(B) - 2 ELSE Len(B) - 1),
             K |-> IF a.trans_a THEN Dim(A, 0) ELSE Dim(A, Len(A) - 1)]

\* the DCHECKs on the way: they test the trans flags against the ranks, never
\* a dimension; a build without DCHECK compiles them out
DchecksHold(a) ==
    IF Len(a.A) = 1 THEN ~a.trans_a /\ Len(a.B) > 1
    ELSE IF Len(a.B) = 1 THEN ~a.trans_a /\ ~a.trans_b /\ Len(a.A) > 1
    ELSE ~a.trans_a \/ Len(a.A) = 2

\* the early return taken for a negative dimension as well
EmptyTensorOrNegative(m, n, k) == m <= 0 \/ n <= 0 \/ k <= 0

\* if (M == 0 || N == 0 || K == 0) return;
EmptyTensor(m, n, k) == m = 0 \/ n = 0 \/ k = 0

nosgemm == <<kargs, frame, C, parvars, history, tcall, oncevars, rest>>

\* from the entry to the end of the shape analysis
SgemmCpuDims ==
    /\ sgemm.pc = "entry"
    /\ IF args.dcheck /\ ~DchecksHold(args)
       THEN sgemm' = [sgemm EXCEPT !.pc = "done", !.status = "DCHECK failed"]
       ELSE sgemm' = [sgemm EXCEPT !.pc = "dims", !.M = DimsOf(args).M,
                                   !.N = DimsOf(args).N, !.K = DimsOf(args).K]
    /\ UNCHANGED <<args, nosgemm>>

\* math::Gemm called without the early return for an empty tensor
SgemmCpuGemmWithoutEarlyReturn ==
    /\ sgemm.pc = "dims"
    /\ sgemm' = [sgemm EXCEPT
                   !.pc = "done", !.status = "returned",
                   !.C = "written by Gemm",
                   !.Gemm = Append(@, [TransA |-> args.trans_a,
                                       TransB |-> args.trans_b,
                                       M |-> sgemm.M, N |-> sgemm.N,
                                       K |-> sgemm.K,
                                       alpha |-> 1, beta |-> 0])]
    /\ UNCHANGED <<args, nosgemm>>

\* the early return for an empty tensor, else the one call of math::Gemm,
\* which is what writes C
SgemmCpuGemm ==
    /\ sgemm.pc = "dims"
    /\ IF EmptyTensor(sgemm.M, sgemm.N, sgemm.K)
       THEN sgemm' = [sgemm EXCEPT !.pc = "done", !.status = "returned"]
       ELSE sgemm' = [sgemm EXCEPT
                        !.pc = "done", !.status = "returned",
                        !.C = "written by Gemm",
                        !.Gemm = Append(@, [TransA |-> args.trans_a,
                                            TransB |-> args.trans_b,
                                            M |-> sgemm.M, N |-> sgemm.N,
                                            K |-> sgemm.K,
                                            alpha |-> 1, beta |-> 0])]
    /\ UNCHANGED <<args, nosgemm>>

InitSgemm ==
    /\ KernelIdle /\ ParIdle /\ GemmIdle /\ TypesIdle /\ RestIdle /\ OnceIdle
    /\ args \in [A : Shapes(1), B : Shapes(5), trans_a : BOOLEAN,
                 trans_b : BOOLEAN, dcheck : BOOLEAN]
    /\ sgemm = [pc |-> "entry", status |-> "running", M |-> 0, N |-> 0, K |-> 0,
                C |-> "as given", Gemm |-> <<>>]

NextSgemm ==
    \/ SgemmCpuDims
    \/ SgemmCpuGemm

SpecSgemm == InitSgemm /\ [][NextSgemm]_vars

C16_BlockedMatchesNaiveReference ==
    (variant \in Tiled /\ pc = "done" /\ Beta = 0) =>
        /\ \A i \in 0..(M - 1) : \A j \in 0..(N - 1) :
              LET Naive[k \in 0..K] ==
                      IF k = 0 THEN 0
                      ELSE Naive[k - 1] + MatA(i, k - 1) * MatB(k - 1, j)
              IN C[i * ldc + j] = Both(Alpha * Naive[K])
        /\ Example =>
              \A i \in 0..2 : \A j \in 0..1 :
                 C[i * ldc + j] = Both(ExampleC[i + 1][j + 1])

C16_Witness ==
    /\ variant = "Avx" /\ pc = "done" /\ Beta = 0 /\ Example
    /\ calls = <<2, 1>>
    /\ MatA(2, 3) = 12 /\ MatB(1, 1) = 1
    /\ C[0] = Both(8) /\ C[1] = Both(9)
    /\ C[ldc] = Both(20) /\ C[ldc + 1] = Both(21)
    /\ C[2 * ldc] = Both(32) /\ C[2 * ldc + 1] = Both(33)

\* C21: a call of sgemm_cpu that returns has invoked Gemm exactly once when
\* the M, N and K it derives from the shapes and the trans flags are all
\* nonzero, with those M, N, K and trans flags, alpha = 1 and beta = 0 (so
\* Gemm overwrites C without reading it); when one of M, N, K is 0 it has
\* invoked Gemm zero times and C is as the caller gave it. Gemm is never
\* invoked before the shape analysis is over.
C21_GemmOnceWithBetaZeroOrNotAtAll ==
    LET d == DimsOf(args)
    IN /\ sgemm.pc # "done" => (sgemm.Gemm = <<>> /\ sgemm.C = "as given")
       /\ \A n \in DOMAIN sgemm.Gemm :
             sgemm.Gemm[n].alpha = 1 /\ sgemm.Gemm[n].beta = 0
       /\ sgemm.status = "returned" =>
             IF d.M # 0 /\ d.N # 0 /\ d.K # 0
             THEN /\ sgemm.Gemm = <<[TransA |-> args.trans_a, TransB |-> args.trans_b,
                                     M |-> d.M, N |-> d.N, K |-> d.K,
                                     alpha |-> 1, beta |-> 0]>>
                  /\ sgemm.C = "written by Gemm"
             ELSE /\ sgemm.Gemm = <<>>
                  /\ sgemm.C = "as given"

\* a 3-D A of 2 x 3 x 4 against a 2-D B of 6 x 7: one call with M = 6, the
\* leading dimensions of A flattened, N = 7 and K = 4
C21_Witness ==
    /\ sgemm.status = "returned"
    /\ args.A = <<2, 3, 4>> /\ args.B = <<6, 7>> /\ ~args.trans_a /\ ~args.trans_b
    /\ Len(sgemm.Gemm) = 1
    /\ sgemm.Gemm[1].M = 6 /\ sgemm.Gemm[1].N = 7 /\ sgemm.Gemm[1].K = 4
    /\ sgemm.Gemm[1].beta = 0

\* ============================================= the kernels run to the end
\* The processor keeps executing the kernel and the caller's row loop: a
\* step that can be taken is taken.
InitLive ==
    /\ ParIdle /\ GemmIdle /\ SgemmIdle /\ TypesIdle /\ RestIdle /\ OnceIdle
    /\ variant \in Tiled
    /\ M \in 1..(MaxRowsOf(variant) + ExtraM)
    /\ N \in 1..(BandOf(variant) + BandOf(variant) \div 2 + ExtraN)
    /\ K \in 1..MaxK
    /\ Alpha \in Alphas
    /\ Beta \in Betas(variant)
    /\ ZeroMode = (Beta = 0)
    /\ ldc = N + 1
    /\ Holds(FreshFrame(0))
    /\ C = [a \in 0..(M * ldc - 1) |-> InitC(a)]

NextLive ==
    \/ MlasGemmFloatKernelAvx
    \/ AvxProcessNextColumnLoop16xN
    \/ AvxStore16xNBlock
    \/ AvxProcessRemainingCountN
    \/ AvxStore8xNBlock
    \/ AvxOutputMasked16xNBlock
    \/ AvxOutputMasked8xNBlock
    \/ MlasGemmFloatKernelFma3
    \/ Fma3ProcessNextColumnLoop16xN
    \/ Fma3Store16xNBlock
    \/ Fma3ProcessRemainingCountN
    \/ Fma3Store8xNBlock
    \/ Fma3OutputMasked16xNBlock
    \/ Fma3OutputMasked8xNBlock
    \/ MlasGemmFloatKernelAvx512F
    \/ Avx512FProcessNextColumnLoop32xN
    \/ Avx512FStore32xNBlock
    \/ Avx512FOutput16xNBlock
    \/ Avx512FProcessRemainingCountN
    \/ ExitKernel
    \/ RowLoop

\* the labels of a packed-B kernel, and of the row loop around it, at which
\* there is an instruction to execute
Labels(v) ==
    {"call", "ProcessRemainingCountN", "ExitKernel", "ret"} \cup
    (IF v = "Avx512F"
     THEN {"ProcessNextColumnLoop32xN", "Store32xNBlock", "Output16xNBlock"}
     ELSE {"ProcessNextColumnLoop16xN", "Store16xNBlock", "Store8xNBlock",
           "OutputMasked16xNBlock", "OutputMasked8xNBlock"})

\* The processor executes the code at the label it stands on and moves to
\* another label. There is one thread and nothing to wait for, so whenever
\* the counter stands on code a step is eventually taken.
Executes ==
    /\ pc \in Labels(variant)
    /\ pc' \in (Labels(variant) \cup {"done"}) \ {pc}

SpecLive == InitLive /\ [][NextLive]_vars /\ WF_pc(Executes)

\* the passes of the column loop the running invocation has made: each pass
\* loads its band of the B panel once
Passes == Cardinality(Events("ldB"))

\* the passes over a full band (16 columns; 32 for Avx512F)
FullPasses ==
    Cardinality({n \in Events("ldB") : log[n].lanes = AllLanes(BandOf(variant))})

\* C18, the counter: at the head of the column loop and at
\* ProcessRemainingCountN the remaining-column counter is CountN less one
\* band for each pass made, and is positive, more than half a band at the
\* head and at most half a band at ProcessRemainingCountN; so each pass
\* lowers it, the passes never exceed ceil(CountN / band) <= CountN, and at
\* ExitKernel they are exactly that many.
C18_CounterFallsEachPass ==
    (variant \in Tiled /\ pc \notin {"call", "ret", "done"}) =>
        LET band == BandOf(variant)
            head == pc \in {"ProcessNextColumnLoop16xN", "ProcessNextColumnLoop32xN"}
        IN /\ (head \/ pc = "ProcessRemainingCountN") =>
                 /\ rbp = N - band * FullPasses
                 /\ Passes = FullPasses
                 /\ rbp > 0
           /\ head => rbp > band \div 2
           /\ pc = "ProcessRemainingCountN" => rbp <= band \div 2
           /\ Passes <= (N + band - 1) \div band
           /\ Passes <= N
           /\ pc = "ExitKernel" => Passes = (N + band - 1) \div band

\* C18: every invocation of a packed-B kernel (CountM, CountN, CountK >= 1)
\* reaches ExitKernel and returns, its remaining-column counter falling by a
\* band on each pass of the column loop, after ceil(CountN / band) passes;
\* and the row loop around it ends.
C18_EveryInvocationReturns ==
    /\ [](C18_CounterFallsEachPass)
    /\ [][pc = "ExitKernel" => pc' = "ret"]_vars
    /\ (pc = "call") ~> (pc = "ExitKernel")
    /\ (pc = "ExitKernel") ~> (pc = "ret")
    /\ <>[](pc = "done")

\* an AVX512F invocation of 49 columns has returned after two passes of the
\* column loop: a full band of 32, then 17 columns loaded as a full band and
\* stored under the mask
C18_Witness ==
    /\ variant = "Avx512F" /\ pc = "ret" /\ N = 49 /\ M = 13 /\ rowsDone = 0
    /\ Passes = 2 /\ FullPasses = 2
    /\ \E n \in Events("st") : log[n].lanes = {0}



\* ---------------------------------------------------------------------
\* The element-type mappings (tensor_type_and_shape.cc 76-165 and the
\* server's converter)
\* ---------------------------------------------------------------------

\* the conversions of one chain
MaxConversions == 3

\* the fourteen supported element types, by the name the three enumerations share
Supported ==
    {"FLOAT", "FLOAT16", "BFLOAT16", "DOUBLE", "UINT8", "INT8", "UINT16", "INT16",
     "UINT32", "INT32", "UINT64", "INT64", "STRING", "BOOL"}

\* the other values a caller can pass: the enumerators without a mapping and
\* integers outside the enumeration
Unsupported == {"UNDEFINED", "COMPLEX64", "COMPLEX128", "17", "-1"}

\* a value of ONNXTensorElementDataType and one of onnx::TensorProto_DataType
ONNX_TENSOR_ELEMENT_DATA_TYPE(v) == [enum |-> "ONNXTensorElementDataType", v |-> v]
TensorProto_DataType(v) == [enum |-> "TensorProto_DataType", v |-> v]

\* DataTypeImpl::GetType<T>() for the T the chain tests, and for others
GetType(T) == [enum |-> "DataTypeImpl", v |-> T]

CppTypes ==
    {"float", "uint8_t", "int8_t", "uint16_t", "int16_t", "int32_t", "int64_t",
     "std::string", "bool", "MLFloat16", "BFloat16", "double", "uint32_t", "uint64_t",
     "std::map<int64_t, float>", "nullptr"}

MLDataTypeToOnnxRuntimeTensorElementDataType(cpp_type) ==
    ONNX_TENSOR_ELEMENT_DATA_TYPE(
        IF cpp_type = GetType("float") THEN "FLOAT"
        ELSE IF cpp_type = GetType("uint8_t") THEN "UINT8"
        ELSE IF cpp_type = GetType("int8_t") THEN "INT8"
        ELSE IF cpp_type = GetType("uint16_t") THEN "UINT16"
        ELSE IF cpp_type = GetType("int16_t") THEN "INT16"
        ELSE IF cpp_type = GetType("int32_t") THEN "INT32"
        ELSE IF cpp_type = GetType("int64_t") THEN "INT64"
        ELSE IF cpp_type = GetType("std::string") THEN "STRING"
        ELSE IF cpp_type = GetType("bool") THEN "BOOL"
        ELSE IF cpp_type = GetType("MLFloat16") THEN "FLOAT16"
        ELSE IF cpp_type = GetType("BFloat16") THEN "BFLOAT16"
        ELSE IF cpp_type = GetType("double") THEN "DOUBLE"
        ELSE IF cpp_type = GetType("uint32_t") THEN "UINT32"
        ELSE IF cpp_type = GetType("uint64_t") THEN "UINT64"
        ELSE "UNDEFINED")

\* the switch with its cases exchanged for the 8-bit integers
TensorDataTypeExchanging8Bit(dtype) ==
    ONNX_TENSOR_ELEMENT_DATA_TYPE(
        CASE dtype = TensorProto_DataType("INT8") -> "UINT8"
          [] dtype = TensorProto_DataType("UINT8") -> "INT8"
          [] dtype.v \in Supported \ {"INT8", "UINT8"} -> dtype.v
          [] OTHER -> "UNDEFINED")

TensorDataTypeToOnnxRuntimeTensorElementDataType(dtype) ==
    ONNX_TENSOR_ELEMENT_DATA_TYPE(
        CASE dtype = TensorProto_DataType("FLOAT") -> "FLOAT"
          [] dtype = TensorProto_DataType("DOUBLE") -> "DOUBLE"
          [] dtype = TensorProto_DataType("FLOAT16") -> "FLOAT16"
          [] dtype = TensorProto_DataType("BFLOAT16") -> "BFLOAT16"
          [] dtype = TensorProto_DataType("INT8") -> "INT8"
          [] dtype = TensorProto_DataType("UINT8") -> "UINT8"
          [] dtype = TensorProto_DataType("INT16") -> "INT16"
          [] dtype = TensorProto_DataType("UINT16") -> "UINT16"
          [] dtype = TensorProto_DataType("INT32") -> "INT32"
          [] dtype = TensorProto_DataType("UINT32") -> "UINT32"
          [] dtype = TensorProto_DataType("INT64") -> "INT64"
          [] dtype = TensorProto_DataType("UINT64") -> "UINT64"
          [] dtype = TensorProto_DataType("STRING") -> "STRING"
          [] dtype = TensorProto_DataType("BOOL") -> "BOOL"
          [] OTHER -> "UNDEFINED")

\* the server's conversion, by the values its test pins: the fourteen
\* supported types, UNDEFINED and 17; the default covers the rest
MLDataTypeToTensorProtoDataType(cpp_type) ==
    TensorProto_DataType(
        CASE cpp_type = ONNX_TENSOR_ELEMENT_DATA_TYPE("FLOAT") -> "FLOAT"
          [] cpp_type = ONNX_TENSOR_ELEMENT_DATA_TYPE("FLOAT16") -> "FLOAT16"
          [] cpp_type = ONNX_TENSOR_ELEMENT_DATA_TYPE("BFLOAT16") -> "BFLOAT16"
          [] cpp_type = ONNX_TENSOR_ELEMENT_DATA_TYPE("DOUBLE") -> "DOUBLE"
          [] cpp_type = ONNX_TENSOR_ELEMENT_DATA_TYPE("UINT8") -> "UINT8"
          [] cpp_type = ONNX_TENSOR_ELEMENT_DATA_TYPE("INT8") -> "INT8"
          [] cpp_type = ONNX_TENSOR_ELEMENT_DATA_TYPE("UINT16") -> "UINT16"
          [] cpp_type = ONNX_TENSOR_ELEMENT_DATA_TYPE("INT16") -> "INT16"
          [] cpp_type = ONNX_TENSOR_ELEMENT_DATA_TYPE("UINT32") -> "UINT32"
          [] cpp_type = ONNX_TENSOR_ELEMENT_DATA_TYPE("INT32") -> "INT32"
          [] cpp_type = ONNX_TENSOR_ELEMENT_DATA_TYPE("UINT64") -> "UINT64"
          [] cpp_type = ONNX_TENSOR_ELEMENT_DATA_TYPE("INT64") -> "INT64"
          [] cpp_type = ONNX_TENSOR_ELEMENT_DATA_TYPE("STRING") -> "STRING"
          [] cpp_type = ONNX_TENSOR_ELEMENT_DATA_TYPE("BOOL") -> "BOOL"
          [] OTHER -> "UNDEFINED")

notypes == <<kargs, frame, C, parvars, history, sgemmvars, oncevars, rest>>

\* the argument of the next conversion: any value of the enumeration for the
\* first of a chain, afterwards the value the conversion before returned
ArgsOf(enum, fresh) ==
    IF tcall = <<>> THEN fresh
    ELSE {x \in {tcall[Len(tcall)].result} : x.enum = enum}

Converted(fn, arg, result) ==
    /\ Len(tcall) < MaxConversions
    /\ tcall' = Append(tcall, [fn |-> fn, arg |-> arg, result |-> result])
    /\ UNCHANGED notypes

CallMLDataTypeToOnnxRuntimeTensorElementDataType ==
    \E x \in ArgsOf("DataTypeImpl", {GetType(T) : T \in CppTypes}) :
        Converted("MLDataTypeToOnnxRuntimeTensorElementDataType", x,
                  MLDataTypeToOnnxRuntimeTensorElementDataType(x))

CallTensorDataTypeToOnnxRuntimeTensorElementDataType ==
    \E x \in ArgsOf("TensorProto_DataType",
                    {TensorProto_DataType(v) : v \in Supported \cup Unsupported}) :
        Converted("TensorDataTypeToOnnxRuntimeTensorElementDataType", x,
                  TensorDataTypeToOnnxRuntimeTensorElementDataType(x))

CallMLDataTypeToTensorProtoDataType ==
    \E x \in ArgsOf("ONNXTensorElementDataType",
                    {ONNX_TENSOR_ELEMENT_DATA_TYPE(v) : v \in Supported \cup Unsupported}) :
        Converted("MLDataTypeToTensorProtoDataType", x,
                  MLDataTypeToTensorProtoDataType(x))

InitTypes ==
    /\ KernelIdle /\ ParIdle /\ GemmIdle /\ SgemmIdle /\ OnceIdle /\ RestIdle
    /\ tcall = <<>>

NextTypes ==
    \/ CallMLDataTypeToOnnxRuntimeTensorElementDataType
    \/ CallTensorDataTypeToOnnxRuntimeTensorElementDataType
    \/ CallMLDataTypeToTensorProtoDataType

SpecTypes == InitTypes /\ [][NextTypes]_vars

\* C19: MLDataTypeToTensorProtoDataType gives each of the fourteen supported
\* element types the TensorProto data type of the same name and every other
\* value (UNDEFINED, 17, ...) TensorProto UNDEFINED;
\* TensorDataTypeToOnnxRuntimeTensorElementDataType gives each of those
\* TensorProto types the element type of the same name and every other data
\* type ONNX_TENSOR_ELEMENT_DATA_TYPE_UNDEFINED; so each is defined on every
\* value, and on the supported types either one undoes the other.
C19_MappingsTotalAndMutuallyInverse ==
    \A n \in DOMAIN tcall :
        LET c == tcall[n]
            like == IF c.arg.v \in Supported THEN c.arg.v ELSE "UNDEFINED"
        IN /\ c.fn = "MLDataTypeToTensorProtoDataType" =>
                 c.result = TensorProto_DataType(like)
           /\ c.fn = "TensorDataTypeToOnnxRuntimeTensorElementDataType" =>
                 c.result = ONNX_TENSOR_ELEMENT_DATA_TYPE(like)
           /\ c.result.v \in Supported \cup {"UNDEFINED"}
           /\ ( /\ n > 1
                /\ c.fn # "MLDataTypeToOnnxRuntimeTensorElementDataType"
                /\ tcall[n - 1].fn # "MLDataTypeToOnnxRuntimeTensorElementDataType"
                /\ tcall[n - 1].arg.v \in Supported ) =>
                    /\ c.fn # tcall[n - 1].fn
                    /\ c.result = tcall[n - 1].arg

\* the 8-bit signed type has gone to TensorProto and back, and back again
C19_Witness ==
    /\ Len(tcall) = 3
    /\ tcall[1].fn = "TensorDataTypeToOnnxRuntimeTensorElementDataType"
    /\ tcall[1].arg = TensorProto_DataType("INT8")
    /\ tcall[2].fn = "MLDataTypeToTensorProtoDataType"
    /\ tcall[2].result = tcall[1].arg
    /\ tcall[3].result = ONNX_TENSOR_ELEMENT_DATA_TYPE("INT8")



\* ---------------------------------------------------------------------
\* Beta in the M = 1 kernels
\* ---------------------------------------------------------------------

M1Kernels == {"M1Avx", "M1TransposeBAvx"}

Stores == [n \in 1..Cardinality(Events("st")) |->
             log[CHOOSE m \in Events("st") :
                    Cardinality({q \in Events("st") : q <= m}) = n]]

Width(e) == Cardinality(e.lanes)

\* groups of 4, then at most one group of 2, then at most one single
\* element, each group starting where the one before ended
GroupsOf421(S) ==
    /\ \A n \in 1..Len(S) :
          /\ Width(S[n]) \in {4, 2, 1}
          /\ S[n].lanes = AllLanes(Width(S[n]))
          /\ S[n].addr = IF n = 1 THEN 0 ELSE S[n - 1].addr + Width(S[n - 1])
          /\ n > 1 => \/ Width(S[n - 1]) = 4
                      \/ Width(S[n - 1]) = 2 /\ Width(S[n]) = 1
    /\ Cardinality({n \in 1..Len(S) : Width(S[n]) = 2}) <= 1
    /\ Cardinality({n \in 1..Len(S) : Width(S[n]) = 1}) <= 1

\* C25: when MlasSgemmKernelM1TransposeBAvx has returned (CountN >= 1,
\* CountK >= 1), every C[0..CountN-1] has been stored exactly once, the
\* stores came in groups of 4, then at most one group of 2, then at most one
\* single element, no load or store of C touched an index >= CountN, the K
\* tail mask has exactly CountK mod 8 lanes (the lowest ones), and no load
\* of A or of a row of B touched an index >= CountK.
C25_EachOutputOnceAndNothingPastCountNOrCountK ==
    (variant = "M1TransposeBAvx" /\ pc = "done") =>
        /\ \A j \in 0..(N - 1) : Count("st", j) = 1
        /\ GroupsOf421(Stores)
        /\ \A n \in Events("ld") \cup Events("st") :
              \A i \in log[n].lanes : log[n].addr + i \in 0..(N - 1)
        /\ mask = AllLanes(K % 8)
        /\ \A n \in Events("ldA") :
              \A i \in log[n].lanes : log[n].addr + i \in 0..(K - 1)
        /\ \A n \in Events("ldB") :
              \A i \in log[n].lanes :
                 /\ (log[n].addr + i) % rbx \in 0..(K - 1)
                 /\ (log[n].addr + i) \div rbx \in 0..(N - 1)
        /\ \A n \in Events("ldA") \cup Events("ldB") :
              log[n].lanes # AllLanes(8) => log[n].lanes = AllLanes(K % 8)

\* MlasSgemmKernelM1TransposeBAvx has returned from CountN = 7, CountK = 9:
\* three stores of 4, 2 and 1 elements, and a K tail loaded under a mask of
\* one lane after one full step of 8
C25_Witness ==
    /\ variant = "M1TransposeBAvx" /\ pc = "done" /\ N = 7 /\ K = 9
    /\ Len(Stores) = 3
    /\ Width(Stores[1]) = 4 /\ Width(Stores[2]) = 2 /\ Width(Stores[3]) = 1
    /\ mask = {0}
    /\ \E n \in Events("ldB") : log[n].lanes = {0} /\ log[n].addr % rbx = 8
    /\ \E n \in Events("ldA") : log[n].lanes = AllLanes(8)




\* ---------------------------------------------------------------------
\* MatMulExternCpu (nuphar/mti_x86/math/matmul_ops.cc 131-221)
\* ---------------------------------------------------------------------

\* the settings of the nuphar matmul-exec option: not set, extern-cpu, or
\* another value
MatmulExecOptions == {"unset", "extern_cpu", "other"}

\* dtypes as (is_float, bits)
DTypes == {<<TRUE, 32>>, <<TRUE, 64>>, <<TRUE, 16>>, <<FALSE, 32>>}

nomatmul ==
    <<kargs, frame, C, parvars, history, sgemmvars, tcall, oncevars,
      fusion, upsample, unsq, info>>

\* A->shape[d], ..., for d in lo..hi
ShapeDims(t, lo, hi) == [n \in 1..(hi - lo + 1) |-> <<t, lo + n - 1>>]

\* the early returns, lines 138-167
MatMulExternCpuChecks ==
    /\ matmul.pc = "entry"
    /\ LET prefer_extern == matmul.option = "extern_cpu"
           rank_A == matmul.rank_A
           rank_B == matmul.rank_B
       IN IF \/ (matmul.option # "unset" /\ ~prefer_extern)
             \/ matmul.dtype_A # matmul.dtype_B
             \/ ~matmul.dtype_A[1]
             \/ matmul.dtype_A[2] # 32
             \/ rank_A < 1 \/ rank_B < 1
             \/ (rank_A # 2 /\ matmul.trans_a)
             \/ (rank_A = 1 /\ rank_B = 1)
          THEN matmul' = [matmul EXCEPT !.pc = "done", !.result = "false"]
          ELSE matmul' = [matmul EXCEPT !.pc = "out_shape"]
    /\ UNCHANGED nomatmul

\* lines 169-200 taken without the ORT_ENFORCE of the batched branch
MatMulExternCpuOutShapeUnenforced ==
    /\ matmul.pc = "out_shape"
    /\ matmul' = [matmul EXCEPT !.pc = "make_extern",
                                !.out_shape = <<<<"ComputeMatMulShape", 0>>>>]
    /\ UNCHANGED nomatmul

\* the output shape, lines 169-200
MatMulExternCpuOutShape ==
    /\ matmul.pc = "out_shape"
    /\ LET rank_A == matmul.rank_A
           rank_B == matmul.rank_B
           trans_a == matmul.trans_a
           trans_b == matmul.trans_b
           thrown == [matmul EXCEPT !.pc = "done", !.result = "ORT_ENFORCE"]
           shaped(sh) == [matmul EXCEPT !.pc = "make_extern", !.out_shape = sh]
       IN matmul' =
            IF rank_A = 1
            THEN IF trans_b
                 THEN IF rank_B = 2 THEN shaped(ShapeDims("B", 0, 0)) ELSE thrown
                 ELSE shaped(ShapeDims("B", 0, rank_B - 3)
                               \o ShapeDims("B", rank_B - 1, rank_B - 1))
            ELSE IF rank_B = 1
            THEN shaped(ShapeDims("A", 0, rank_A - 2))
            ELSE IF rank_B = 2
            THEN shaped((IF trans_a THEN ShapeDims("A", rank_A - 1, rank_A - 1)
                                    ELSE ShapeDims("A", 0, rank_A - 2))
                          \o (IF trans_b THEN ShapeDims("B", rank_B - 2, rank_B - 2)
                                         ELSE ShapeDims("B", rank_B - 1, rank_B - 1)))
            ELSE IF ~trans_a /\ ~trans_b
                 THEN shaped(<<<<"ComputeMatMulShape", 0>>>>)
                 ELSE thrown
    /\ UNCHANGED nomatmul

\* Y = make_extern(...): the packed call chosen by rank_B, lines 202-220
MatMulExternCpuMakeExtern ==
    /\ matmul.pc = "make_extern"
    /\ matmul' = [matmul EXCEPT
                    !.pc = "done", !.result = "true",
                    !.Y = IF matmul.rank_B <= 2
                          THEN <<"tvm.contrib.onnxruntime.sgemm_cpu",
                                 matmul.trans_a, matmul.trans_b>>
                          ELSE <<"tvm.contrib.onnxruntime.batched_matmul_cpu">>]
    /\ UNCHANGED nomatmul

InitMatMul ==
    /\ KernelIdle /\ ParIdle /\ GemmIdle /\ SgemmIdle /\ TypesIdle /\ OnceIdle
    /\ FusionIdle /\ UpsampleIdle /\ UnsqIdle /\ InfoIdle
    /\ \E o \in MatmulExecOptions, da \in DTypes, db \in DTypes,
          ra \in 0..MaxRank, rb \in 0..MaxRank, ta \in BOOLEAN, tb \in BOOLEAN :
          matmul = [pc |-> "entry", option |-> o, dtype_A |-> da, dtype_B |-> db,
                    rank_A |-> ra, rank_B |-> rb, trans_a |-> ta, trans_b |-> tb,
                    out_shape |-> <<>>, result |-> "none", Y |-> <<>>]

NextMatMul ==
    \/ MatMulExternCpuChecks
    \/ MatMulExternCpuOutShape
    \/ MatMulExternCpuMakeExtern

SpecMatMul == InitMatMul /\ [][NextMatMul]_vars

\* the five conditions under which the claim says the call is refused
Refused ==
    \/ matmul.option = "other"
    \/ matmul.dtype_A # matmul.dtype_B
    \/ matmul.dtype_A # <<TRUE, 32>>
    \/ matmul.rank_A = 0 \/ matmul.rank_B = 0
    \/ (matmul.trans_a /\ matmul.rank_A # 2)
    \/ (matmul.rank_A = 1 /\ matmul.rank_B = 1)

\* C22: MatMulExternCpu returns false, with Y unassigned, exactly when the
\* option is set to something other than extern-cpu, or the dtypes differ or
\* are not 32-bit float, or an input has rank 0, or trans_a is set with
\* rank(A) # 2, or both inputs are 1-D. Otherwise, unless an ORT_ENFORCE
\* throws (Y unassigned then too), it returns true with Y the extern call of
\* sgemm_cpu when rank(B) <= 2 and of batched_matmul_cpu when rank(B) > 2;
\* batched_matmul_cpu is never chosen with trans_a or trans_b set.
C22_RefusedOrExternByRankOfB ==
    /\ matmul.Y # <<>> => (matmul.pc = "done" /\ matmul.result = "true")
    /\ matmul.pc = "done" =>
          /\ Refused => (matmul.result = "false" /\ matmul.Y = <<>>)
          /\ matmul.result = "false" => Refused
          /\ matmul.result = "ORT_ENFORCE" => matmul.Y = <<>>
          /\ matmul.result = "true" =>
                matmul.Y[1] = IF matmul.rank_B <= 2
                              THEN "tvm.contrib.onnxruntime.sgemm_cpu"
                              ELSE "tvm.contrib.onnxruntime.batched_matmul_cpu"
          /\ (matmul.Y # <<>> /\ matmul.Y[1] = "tvm.contrib.onnxruntime.batched_matmul_cpu") =>
                (~matmul.trans_a /\ ~matmul.trans_b)

\* a 1-D A against a 3-D B has gone to batched_matmul_cpu
C22_Witness ==
    /\ matmul.pc = "done" /\ matmul.result = "true"
    /\ matmul.rank_A = 1 /\ matmul.rank_B = 3 /\ matmul.option = "unset"
    /\ matmul.Y = <<"tvm.contrib.onnxruntime.batched_matmul_cpu">>
    /\ matmul.out_shape = <<<<"B", 0>>, <<"B", 2>>>>



\* ---------------------------------------------------------------------
\* EmbedLayerNormFusion::ApplyImpl (embed_layer_norm_fusion.cc)
\* ---------------------------------------------------------------------

\* the nodes of the topological order
MaxNodes == 3

\* The first check, in the order of the code, that a LayerNormalization node
\* fails; "none" for a node that is fused.
Checks ==
    {"no Attention child", "no ReduceSum", "word embedding shape",
     "position tensor dims", "embedding data", "position subgraph",
     "segment_ids", "gamma", "none"}

\* A node of the order: its operator; for a LayerNormalization the first
\* check it fails, whether the second input of its Add is a constant
\* initializer (`constant`) or the position subgraph, and the type of its
\* input_ids, segment_ids and mask. A ReduceSum is the mask's ReduceSum of
\* the LayerNormalization just before it in the order.
NodeOf(op, fail, path, ids) == [op |-> op, fail |-> fail, path |-> path, ids |-> ids]

NodeKinds ==
    {NodeOf("MatMul", "none", "constant", "int32"),
     NodeOf("ReduceSum", "none", "constant", "int32")}
    \cup {NodeOf("LayerNormalization", f, "subgraph", "int32") :
            f \in {"no Attention child", "no ReduceSum", "word embedding shape",
                   "position subgraph", "segment_ids", "gamma"}}
    \cup {NodeOf("LayerNormalization", f, "constant", "int32") :
            f \in {"position tensor dims", "embedding data", "segment_ids", "gamma"}}
    \cup {NodeOf("LayerNormalization", "none", p, t) :
            p \in {"constant", "subgraph"}, t \in {"int32", "int64"}}

nofusion ==
    <<kargs, frame, C, parvars, history, sgemmvars, tcall, oncevars,
      matmul, upsample, unsq, info>>

\* the nodes, NodeArgs and initializers of the graph before the pass: node n
\* of the order, and for a LayerNormalization the Gather, Add and position
\* nodes above it, which come before it in the order and are no candidates
GraphOf(nodes) ==
    [nodes |-> {<<"node", n, "">> : n \in DOMAIN nodes}
                 \cup {<<"subgraph", n, "">> :
                         n \in {k \in DOMAIN nodes : nodes[k].op = "LayerNormalization"}},
     node_args |-> {<<"output", n, "">> : n \in DOMAIN nodes},
     initializers |-> {<<"weights", n, "">> : n \in DOMAIN nodes},
     generated_names |-> {}]

\* continue: on to the next node of the order
Continue(f) == [f EXCEPT !.pc = "loop", !.i = @ + 1]

\* lines 494-503: the next node of the order; a node an earlier fusion
\* removed, or one that is no supported LayerNormalization, is passed over
ApplyImplNextNode ==
    /\ fusion.pc = "loop" /\ fusion.i <= Len(fusion.order)
    /\ LET n == fusion.i
       IN fusion' =
            IF <<"node", n, "">> \notin fusion.graph.nodes
            THEN Continue([fusion EXCEPT !.passed = @ \cup {n}])
            ELSE IF fusion.order[n].op # "LayerNormalization"
            THEN Continue([fusion EXCEPT !.examined = @ \cup {n}])
            ELSE [fusion EXCEPT !.pc = "attention",
                                !.examined = @ \cup {n},
                                !.before = [graph |-> fusion.graph,
                                            modified |-> fusion.modified]]
    /\ UNCHANGED nofusion

\* line 720: the order is exhausted
ApplyImplReturn ==
    /\ fusion.pc = "loop" /\ fusion.i > Len(fusion.order)
    /\ fusion' = [fusion EXCEPT !.pc = "done", !.status = "OK"]
    /\ UNCHANGED nofusion

\* a missing Attention child treated as the other failed checks are
ApplyImplFindAttentionContinues ==
    /\ fusion.pc = "attention"
    /\ fusion' = IF fusion.order[fusion.i].fail = "no Attention child"
                 THEN Continue([fusion EXCEPT !.skipped = @ \cup {fusion.i}])
                 ELSE [fusion EXCEPT !.pc = "match"]
    /\ UNCHANGED nofusion

\* lines 505-510: no Attention child ends the pass
ApplyImplFindAttention ==
    /\ fusion.pc = "attention"
    /\ fusion' = IF fusion.order[fusion.i].fail = "no Attention child"
                 THEN [fusion EXCEPT !.pc = "done", !.status = "OK",
                                     !.stopped = fusion.i]
                 ELSE [fusion EXCEPT !.pc = "match"]
    /\ UNCHANGED nofusion

\* lines 511-569: the Attention, ReduceSum, Add and Gather nodes around the
\* LayerNormalization
ApplyImplMatch ==
    /\ fusion.pc = "match"
    /\ fusion' = IF fusion.order[fusion.i].fail \in {"no ReduceSum", "word embedding shape"}
                 THEN Continue([fusion EXCEPT !.skipped = @ \cup {fusion.i}])
                 ELSE [fusion EXCEPT !.pc = "position"]
    /\ UNCHANGED nofusion

\* ExtractEmbedding, lines 438-476: a name is generated; unless the batches
\* differ the new initializer and its NodeArg are added to the graph
ExtractEmbedding(g, n, same) ==
    LET named == [g EXCEPT !.generated_names = @ \cup {<<"position_embeddings", n, "">>}]
    IN IF ~same THEN named
       ELSE [named EXCEPT
               !.initializers = @ \cup {<<"position_embeddings", n, "">>},
               !.node_args = @ \cup {<<"position_embeddings", n, "">>}]

\* lines 571-628: the position embedding, from the constant initializer or
\* through the position subgraph
ApplyImplPositionEmbedding ==
    /\ fusion.pc = "position"
    /\ LET n == fusion.i
           node == fusion.order[n]
           skip(f) == Continue([f EXCEPT !.skipped = @ \cup {n}])
       IN fusion' =
            IF node.path = "constant"
            THEN IF node.fail = "position tensor dims" THEN skip(fusion)
                 ELSE IF node.fail = "embedding data"
                 THEN skip([fusion EXCEPT !.graph = ExtractEmbedding(@, n, FALSE)])
                 ELSE [fusion EXCEPT !.pc = "inputs",
                                     !.graph = ExtractEmbedding(@, n, TRUE)]
            ELSE IF node.fail = "position subgraph" THEN skip(fusion)
                 ELSE [fusion EXCEPT !.pc = "inputs"]
    /\ UNCHANGED nofusion

\* lines 630-679: the shapes and types of the position embedding, input_ids,
\* segment_ids, mask, gamma and beta
ApplyImplCheckInputs ==
    /\ fusion.pc = "inputs"
    /\ fusion' = IF fusion.order[fusion.i].fail \in {"segment_ids", "gamma"}
                 THEN Continue([fusion EXCEPT !.skipped = @ \cup {fusion.i}])
                 ELSE [fusion EXCEPT !.pc = "fuse"]
    /\ UNCHANGED nofusion

\* CastToInt32, lines 17-48, for input_ids, segment_ids and mask: nothing for
\* an int32 input, a Cast node and its output NodeArg for an int64 one
CastToInt32(g, n, type) ==
    IF type = "int32" THEN g
    ELSE [g EXCEPT
            !.nodes = @ \cup {<<"Cast", n, x>> : x \in {"input_ids", "segment_ids", "mask"}},
            !.node_args = @ \cup {<<"Int32", n, x>> : x \in {"input_ids", "segment_ids", "mask"}},
            !.generated_names = @ \cup {<<"Int32", n, x>> : x \in {"input_ids", "segment_ids", "mask"}}
                                  \cup {<<"Cast", n, x>> : x \in {"input_ids", "segment_ids", "mask"}}]

\* lines 681-717: the casts, the EmbedLayerNormalization node, the removal of
\* the fused nodes, modified = true
ApplyImplFuse ==
    /\ fusion.pc = "fuse"
    /\ LET n == fusion.i
           cast == CastToInt32(fusion.graph, n, fusion.order[n].ids)
           reduce_sum == {<<"node", k, "">> : k \in {m \in DOMAIN fusion.order :
                              m = n + 1 /\ fusion.order[m].op = "ReduceSum"}}
       IN fusion' = Continue([fusion EXCEPT
              !.graph = [cast EXCEPT
                           !.nodes = (@ \cup {<<"EmbedLayerNormalization", n, "">>})
                                       \ ({<<"node", n, "">>, <<"subgraph", n, "">>}
                                            \cup reduce_sum),
                           !.generated_names = @ \cup {<<"EmbedLayerNormalization", n, "">>}],
              !.modified = TRUE,
              !.fused = @ \cup {n}])
    /\ UNCHANGED nofusion

InitFusion ==
    /\ KernelIdle /\ ParIdle /\ GemmIdle /\ SgemmIdle /\ TypesIdle /\ OnceIdle
    /\ MatMulIdle /\ UpsampleIdle /\ UnsqIdle /\ InfoIdle
    /\ \E len \in 1..MaxNodes : \E order \in [1..len -> NodeKinds] :
          fusion = [order |-> order, pc |-> "loop", i |-> 1, graph |-> GraphOf(order),
                    modified |-> FALSE, status |-> "running",
                    examined |-> {}, passed |-> {}, skipped |-> {}, fused |-> {},
                    stopped |-> 0,
                    before |-> [graph |-> GraphOf(order), modified |-> FALSE]]

NextFusion ==
    \/ ApplyImplNextNode
    \/ ApplyImplReturn
    \/ ApplyImplFindAttention
    \/ ApplyImplMatch
    \/ ApplyImplPositionEmbedding
    \/ ApplyImplCheckInputs
    \/ ApplyImplFuse

SpecFusion == InitFusion /\ [][NextFusion]_vars



LayerNorms(order) == {n \in DOMAIN order : order[n].op = "LayerNormalization"}

\* the first LayerNormalization of the order without an Attention child, 0
\* when there is none
FirstWithoutAttention(order) ==
    LET S == {n \in LayerNorms(order) : order[n].fail = "no Attention child"}
    IN IF S = {} THEN 0 ELSE CHOOSE n \in S : \A m \in S : n <= m

\* C23: the pass ends, with OK, at the first supported LayerNormalization
\* that has no Attention child: no later node of the order is looked at. A
\* LayerNormalization that fails another check is skipped and the pass goes
\* on to the next node. `modified` is set exactly when a fusion was made.
C23_StopsAtFirstWithoutAttentionElseContinues ==
    LET order == fusion.order
        stop == FirstWithoutAttention(order)
        reach == IF stop = 0 THEN DOMAIN order ELSE 1..stop
    IN /\ fusion.modified <=> fusion.fused # {}
       /\ fusion.examined \cup fusion.passed \subseteq reach
       /\ \A n \in fusion.skipped :
             /\ order[n].fail \notin {"none", "no Attention child"}
             /\ fusion.i > n
       /\ \A n \in fusion.fused : order[n].fail = "none"
       /\ fusion.stopped # 0 => (fusion.pc = "done" /\ fusion.stopped = stop)
       /\ fusion.pc = "done" =>
             /\ fusion.status = "OK"
             /\ fusion.stopped = stop
             /\ fusion.examined \cup fusion.passed = reach
             /\ fusion.skipped =
                   {n \in LayerNorms(order) \cap reach :
                       order[n].fail \notin {"none", "no Attention child"}}
             /\ fusion.fused = {n \in LayerNorms(order) \cap reach : order[n].fail = "none"}

\* a candidate with a bad gamma was skipped, the next one has no Attention
\* child and ended the pass before the third, which would have been fused
C23_Witness ==
    /\ fusion.pc = "done" /\ Len(fusion.order) = 3
    /\ fusion.order[1].fail = "gamma" /\ fusion.order[1].op = "LayerNormalization"
    /\ fusion.order[2].fail = "no Attention child"
    /\ fusion.order[3].op = "LayerNormalization" /\ fusion.order[3].fail = "none"
    /\ fusion.skipped = {1} /\ fusion.stopped = 2 /\ 3 \notin fusion.examined
    /\ ~fusion.modified

\* C27 as stated: when a candidate LayerNormalization has been skipped, the
\* graph has the nodes, NodeArgs and initializers it had before the candidate
\* was examined, and `modified` is as it was.
C27_SkippedCandidateLeavesGraphAsItWas ==
    (fusion.pc = "loop" /\ (fusion.i - 1) \in fusion.skipped) =>
        /\ fusion.graph.nodes = fusion.before.graph.nodes
        /\ fusion.graph.node_args = fusion.before.graph.node_args
        /\ fusion.graph.initializers = fusion.before.graph.initializers
        /\ fusion.modified = fusion.before.modified

\* a candidate whose position embedding is a constant initializer was skipped
\* for its segment_ids: the initializer ExtractEmbedding added is in the
\* graph, and `modified` is not set
C27_Witness ==
    /\ fusion.pc = "loop" /\ fusion.i = 2 /\ fusion.skipped = {1}
    /\ fusion.order[1].fail = "segment_ids" /\ fusion.order[1].path = "constant"
    /\ <<"position_embeddings", 1, "">> \in fusion.graph.initializers
    /\ <<"position_embeddings", 1, "">> \notin fusion.before.graph.initializers
    /\ ~fusion.modified



\* ---------------------------------------------------------------------
\* UpsampleBase (the class at unsqueeze_elimination.cc 87-180)
\* ---------------------------------------------------------------------

\* the longest scales vector
MaxScales == 4

\* Scale values in halves: -1, 0, 0.5, 1 and 2.
Half(x) == 2 * x

ScaleValues == {Half(0 - 1), Half(0), 1, Half(1), Half(2)}

ScalesOf(n) == [1..n -> ScaleValues]

noupsample ==
    <<kargs, frame, C, parvars, history, sgemmvars, tcall, oncevars,
      matmul, fusion, unsq, info>>

\* whether every ORT_ENFORCE of ScalesValidation passes, lines 150-167
ScalesValidationAsResize(scales, mode) ==
    /\ \A n \in DOMAIN scales : scales[n] > Half(0)
    /\ mode = "LINEAR" =>
          \/ Len(scales) = 2
          \/ (Len(scales) = 4 /\ scales[1] = Half(1) /\ scales[2] = Half(1))

ScalesValidation(scales, mode) ==
    /\ IF ~upsample.is_resize
       THEN \A n \in DOMAIN scales : scales[n] >= Half(1)
       ELSE \A n \in DOMAIN scales : scales[n] > Half(0)
    /\ mode = "LINEAR" =>
          \/ Len(scales) = 2
          \/ (Len(scales) = 4 /\ scales[1] = Half(1) /\ scales[2] = Half(1))

\* ParseScalesData, lines 169-178, for the scales vector of the caller; the
\* result is the status and the vector. A vector that is not empty keeps
\* its size, and a memcpy beyond it is undefined.
ParseScalesData(scale, scales) ==
    IF ~(Len(scale) > 0)
    THEN [status |-> "ORT_ENFORCE scales size", scales |-> scales]
    ELSE IF scales # <<>> /\ Len(scale) > Len(scales)
    THEN [status |-> "undefined", scales |-> scales]
    ELSE LET copied == [n \in 1..(IF scales = <<>> THEN Len(scale) ELSE Len(scales)) |->
                           IF n <= Len(scale) THEN scale[n] ELSE scales[n]]
         IN [status |-> IF ScalesValidation(copied, upsample.mode_)
                        THEN "ok" ELSE "ORT_ENFORCE ScalesValidation",
             scales |-> copied]

\* lines 108-115: is_resize and the mode
UpsampleBaseMode ==
    /\ upsample.pc = "entry"
    /\ upsample' =
         LET u == [upsample EXCEPT !.is_resize = (upsample.start = 10)]
         IN IF u.mode = "<missing>"
            THEN [u EXCEPT !.pc = "done", !.status = "ORT_ENFORCE mode"]
            ELSE IF u.mode = "nearest" THEN [u EXCEPT !.pc = "scales", !.mode_ = "NN"]
            ELSE IF u.mode = "linear" THEN [u EXCEPT !.pc = "scales", !.mode_ = "LINEAR"]
            ELSE [u EXCEPT !.pc = "done", !.status = "ORT_THROW mode"]
    /\ UNCHANGED noupsample

\* lines 117-121: the scales attribute of a kernel with one input
UpsampleBaseScalesAttribute ==
    /\ upsample.pc = "scales" /\ upsample.input_count = 1
    /\ upsample' =
         IF ~upsample.has_scales
         THEN [upsample EXCEPT !.pc = "done", !.status = "ORT_ENFORCE scales"]
         ELSE [upsample EXCEPT
                 !.pc = "done",
                 !.scales_ = upsample.given,
                 !.status = IF ScalesValidation(upsample.given, upsample.mode_)
                            THEN "constructed"
                            ELSE "ORT_ENFORCE ScalesValidation"]
    /\ UNCHANGED noupsample

\* lines 123-131: the scales input, when it is a constant
UpsampleBaseScalesInput ==
    /\ upsample.pc = "scales" /\ upsample.input_count > 1
    /\ upsample' =
         IF ~upsample.has_scales
         THEN [upsample EXCEPT !.pc = "done", !.status = "constructed"]
         ELSE LET parsed == ParseScalesData(upsample.given, upsample.scales_)
              IN IF parsed.status = "ok"
                 THEN [upsample EXCEPT !.pc = "done", !.status = "constructed",
                                       !.scales_ = parsed.scales,
                                       !.scales_cached_ = TRUE]
                 ELSE [upsample EXCEPT !.pc = "done", !.status = parsed.status,
                                       !.scales_ = parsed.scales]
    /\ UNCHANGED noupsample

\* A kernel registered since opset 7, 9 (Upsample) or 10 (Resize), with its
\* mode attribute, one input and perhaps a scales attribute, or two inputs
\* the second of which is perhaps a constant.
InitUpsample ==
    /\ KernelIdle /\ ParIdle /\ GemmIdle /\ SgemmIdle /\ TypesIdle /\ OnceIdle
    /\ MatMulIdle /\ FusionIdle /\ UnsqIdle /\ InfoIdle
    /\ \E start \in {7, 9, 10}, mode \in {"nearest", "linear", "cubic", "<missing>"},
          count \in {1, 2}, has \in BOOLEAN, n \in 0..MaxScales :
          \E given \in ScalesOf(n) :
             /\ (~has => n = 0)
             /\ upsample = [pc |-> "entry", start |-> start, mode |-> mode,
                            input_count |-> count, has_scales |-> has, given |-> given,
                            is_resize |-> FALSE, mode_ |-> "NN", scales_ |-> <<>>,
                            scales_cached_ |-> FALSE, status |-> "running"]

NextUpsample ==
    \/ UpsampleBaseMode
    \/ UpsampleBaseScalesAttribute
    \/ UpsampleBaseScalesInput

SpecUpsample == InitUpsample /\ [][NextUpsample]_vars

\* the vectors the claim says are accepted
Acceptable(scales, resize, mode) ==
    /\ \A n \in DOMAIN scales : IF resize THEN scales[n] > 0 ELSE scales[n] >= Half(1)
    /\ mode = "linear" =>
          \/ Len(scales) = 2
          \/ (Len(scales) = 4 /\ scales[1] = Half(1) /\ scales[2] = Half(1))

\* C24: a kernel is constructed with a scales vector, from the attribute or
\* from a constant scales input, only if every scale is >= 1 for Upsample
\* and > 0 for Resize and, in linear mode, there are 2 scales or 4 of which
\* the first two are 1; a vector that is not like that, once the mode is
\* known and the vector is there, fails an ORT_ENFORCE of ScalesValidation,
\* and nothing else fails there.
C24_ScalesAcceptedOnlyIfValid ==
    upsample.pc = "done" =>
        LET ok == Acceptable(upsample.given, upsample.start = 10, upsample.mode)
            validated == /\ upsample.mode \in {"nearest", "linear"}
                         /\ upsample.has_scales
                         /\ (upsample.input_count > 1 => Len(upsample.given) > 0)
        IN /\ (upsample.status = "constructed" /\ upsample.has_scales) =>
                 (ok /\ upsample.scales_ = upsample.given)
           /\ (validated /\ ~ok) => upsample.status = "ORT_ENFORCE ScalesValidation"
           /\ upsample.status = "ORT_ENFORCE ScalesValidation" => (validated /\ ~ok)
           /\ upsample.scales_cached_ <=>
                 (upsample.status = "constructed" /\ upsample.has_scales
                    /\ upsample.input_count > 1)
           /\ upsample.status # "undefined"

\* a Resize kernel in linear mode has taken the constant scales input
\* (1, 1, 0.5, 2), which Upsample would refuse
C24_Witness ==
    /\ upsample.pc = "done" /\ upsample.status = "constructed"
    /\ upsample.start = 10 /\ upsample.mode = "linear" /\ upsample.input_count = 2
    /\ upsample.given = <<Half(1), Half(1), 1, Half(2)>>
    /\ upsample.scales_ = upsample.given /\ upsample.scales_cached_

\* ---------------------------------------------------------------------
\* UnsqueezeElimination::Apply (core/optimizer/unsqueeze_elimination.cc 13-78)
\* ---------------------------------------------------------------------

\* the longest axes attribute and the highest rank of the initializer
MaxAxes == 2

DimValues == {0, 1, 2}

InitializerDims(n) == [1..n -> DimValues]

nounsq ==
    <<kargs, frame, C, parvars, history, sgemmvars, tcall, oncevars,
      matmul, fusion, upsample, info>>

\* the writes of new_dims[axis] stay inside new_dims, and the reads of
\* *begin++ stay inside dims: anything else is undefined behaviour
Defined(axes, dims) ==
    LET n == Len(axes) + Len(dims)
    IN /\ \A a \in DOMAIN axes : axes[a] \in 0..(n - 1)
       /\ Cardinality({axes[a] : a \in DOMAIN axes}) = Len(axes)

\* for (auto& axis : new_dims) if (axis == 0) axis = *begin++;
RECURSIVE FillZeros(_, _, _, _)
FillZeros(nd, i, dims, begin) ==
    IF i > Len(nd) THEN nd
    ELSE IF nd[i] = 0
         THEN FillZeros([nd EXCEPT ![i] = dims[begin]], i + 1, dims, begin + 1)
         ELSE FillZeros(nd, i + 1, dims, begin)

\* the new axes all put after the original dimensions
NewDimsAppended(axes, dims) == dims \o [a \in DOMAIN axes |-> 1]

\* new_dims(axes.size() + dims.size(), 0); new_dims[axis] = 1 for each axis;
\* then the zeros filled from the original dims, front to back
NewDims(axes, dims) ==
    LET n == Len(axes) + Len(dims)
        ones == [i \in 1..n |->
                   IF \E a \in DOMAIN axes : axes[a] = i - 1 THEN 1 ELSE 0]
    IN FillZeros(ones, 1, dims, 1)

\* set_dims(i, ..) for i below the old rank, add_dims(..) above it
RECURSIVE SetDims(_, _, _)
SetDims(proto, nd, i) ==
    IF i > Len(nd) THEN proto
    ELSE IF i <= Len(proto)
         THEN SetDims([proto EXCEPT ![i] = nd[i]], nd, i + 1)
         ELSE SetDims(Append(proto, nd[i]), nd, i + 1)

NoShape == [set |-> FALSE, dims |-> <<>>]

ShapeOf(dims) == [set |-> TRUE, dims |-> dims]

\* lines 15-24: the axes attribute, or the early return
ApplyGetAxes ==
    /\ unsq.pc = "entry"
    /\ unsq' = IF unsq.attr # "INTS"
               THEN [unsq EXCEPT !.pc = "done", !.status = "OK"]
               ELSE [unsq EXCEPT !.pc = "new_dims",
                                 !.axes = [i \in DOMAIN unsq.ints |-> unsq.ints[i]]]
    /\ UNCHANGED nounsq

\* lines 26-45: ORT_ENFORCE(tensor_proto) and the new dims (a vector of
\* 2^31 - 1 dims or more, refused at line 32, is beyond any graph here)
ApplyNewDims ==
    /\ unsq.pc = "new_dims"
    /\ \/ /\ ~unsq.is_const
          /\ unsq' = [unsq EXCEPT !.pc = "done", !.status = "ORT_ENFORCE tensor_proto"]
       \/ /\ unsq.is_const /\ Defined(unsq.axes, unsq.initializer)
          /\ unsq' = [unsq EXCEPT !.pc = "replace",
                                  !.new_dims = NewDims(unsq.axes, unsq.initializer)]
       \/ /\ unsq.is_const /\ ~Defined(unsq.axes, unsq.initializer)
          /\ \E junk \in DimValues :
                unsq' = [unsq EXCEPT !.pc = "undefined", !.status = "undefined",
                                     !.new_dims =
                                        [i \in 1..(Len(unsq.axes) + Len(unsq.initializer))
                                            |-> junk]]
    /\ UNCHANGED nounsq

\* lines 47-63: the copy of the tensor with the new dims replaces the
\* initializer of the same name
ApplyReplaceInitializer ==
    /\ unsq.pc = "replace"
    /\ unsq' = [unsq EXCEPT !.pc = "set_shape",
                            !.initializer = SetDims(unsq.initializer, unsq.new_dims, 1)]
    /\ UNCHANGED nounsq

\* lines 65-70: input_def->SetShape(shape), input_def being the first input
\* of the node
ApplySetShape ==
    /\ unsq.pc = "set_shape"
    /\ unsq' = [unsq EXCEPT !.pc = "remove", !.input_def = ShapeOf(unsq.new_dims)]
    /\ UNCHANGED nounsq

\* lines 72-77: the node removed if graph_utils::RemoveNode can remove it
ApplyRemoveNode ==
    /\ unsq.pc = "remove"
    /\ \E can \in BOOLEAN :
          unsq' = [unsq EXCEPT !.pc = "done", !.status = "OK",
                               !.removed = can,
                               !.rule_effect = IF can THEN "kRemovedCurrentNode" ELSE @]
    /\ UNCHANGED nounsq

\* the shape an Unsqueeze of dims at axes has
Unsqueezed(axes, dims) ==
    LET n == Len(axes) + Len(dims)
        New(i) == \E a \in DOMAIN axes : axes[a] = i - 1
    IN [i \in 1..n |->
          IF New(i) THEN 1 ELSE dims[Cardinality({j \in 1..i : ~New(j)})]]

\* An Unsqueeze node over an initializer of rank 0..MaxAxes, constant or
\* not, with no axes attribute, an attribute of another type, or 0..MaxAxes
\* axes from one below to one above the range; its output NodeArg has the
\* inferred shape or none.
InitUnsq ==
    /\ KernelIdle /\ ParIdle /\ GemmIdle /\ SgemmIdle /\ TypesIdle /\ OnceIdle
    /\ MatMulIdle /\ FusionIdle /\ UpsampleIdle /\ InfoIdle
    /\ \E attr \in {"<missing>", "INTS", "FLOATS"}, rank \in 0..MaxAxes,
          count \in 0..MaxAxes, const \in BOOLEAN, inferred \in BOOLEAN :
          \E dims \in InitializerDims(rank), ints \in [1..count -> (0 - 1)..(rank + count)] :
             /\ (attr = "<missing>" => count = 0)
             /\ (inferred => attr = "INTS" /\ Defined(ints, dims))
             /\ unsq = [pc |-> "entry", attr |-> attr, ints |-> ints, dims |-> dims,
                        is_const |-> const, axes |-> <<>>, new_dims |-> <<>>,
                        initializer |-> dims, input_def |-> ShapeOf(dims),
                        output_def |-> IF inferred THEN ShapeOf(Unsqueezed(ints, dims))
                                       ELSE NoShape,
                        output_before |-> IF inferred THEN ShapeOf(Unsqueezed(ints, dims))
                                          ELSE NoShape,
                        removed |-> FALSE, rule_effect |-> "kNone",
                        status |-> "running"]

NextUnsq ==
    \/ ApplyGetAxes
    \/ ApplyNewDims
    \/ ApplyReplaceInitializer
    \/ ApplySetShape
    \/ ApplyRemoveNode

SpecUnsq == InitUnsq /\ [][NextUnsq]_vars

\* the nodes the claim is about: an INTS axes attribute of pairwise distinct
\* axes in [0, rank + |axes|), over a constant initializer
Eliminable ==
    /\ unsq.attr = "INTS" /\ unsq.is_const
    /\ \A a \in DOMAIN unsq.ints : unsq.ints[a] \in 0..(Len(unsq.dims) + Len(unsq.ints) - 1)
    /\ \A a, b \in DOMAIN unsq.ints : a # b => unsq.ints[a] # unsq.ints[b]

NothingChanged ==
    /\ unsq.initializer = unsq.dims
    /\ unsq.input_def = ShapeOf(unsq.dims)
    /\ unsq.output_def = unsq.output_before
    /\ ~unsq.removed /\ unsq.rule_effect = "kNone"

\* C26 as stated: after Apply on such a node the replaced initializer and
\* the output NodeArg of the node have the unsqueezed shape; without an INTS
\* axes attribute Apply returns OK and changes nothing.
C26_InitializerAndOutputNodeArgGetTheShape ==
    unsq.pc = "done" =>
        /\ Eliminable =>
              /\ unsq.status = "OK"
              /\ unsq.initializer = Unsqueezed(unsq.ints, unsq.dims)
              /\ unsq.output_def = ShapeOf(Unsqueezed(unsq.ints, unsq.dims))
        /\ unsq.attr # "INTS" => (unsq.status = "OK" /\ NothingChanged)

\* C26: after Apply on an Unsqueeze node over a constant initializer whose
\* axes are pairwise distinct and each in [0, rank + |axes|), the replaced
\* initializer and the NodeArg of the node's first input (not of its output,
\* which Apply leaves as it was) have a shape of length rank + |axes| with 1
\* at every index of axes and the original dimensions, in their order, at
\* the other indices, also when an original dimension is 0 or 1; without an
\* INTS axes attribute Apply returns OK and changes nothing.
C26_InitializerAndInputNodeArgGetTheShape ==
    unsq.pc = "done" =>
        /\ Eliminable =>
              /\ unsq.status = "OK"
              /\ Len(unsq.initializer) = Len(unsq.dims) + Len(unsq.ints)
              /\ unsq.initializer = Unsqueezed(unsq.ints, unsq.dims)
              /\ unsq.input_def = ShapeOf(Unsqueezed(unsq.ints, unsq.dims))
              /\ unsq.output_def = unsq.output_before
        /\ unsq.attr # "INTS" => (unsq.status = "OK" /\ NothingChanged)

\* Apply has returned from an Unsqueeze of an initializer of dims (0, 2) at
\* axes (2, 0): the initializer and the input NodeArg have the shape
\* (1, 0, 1, 2), and the output NodeArg, which had no shape, still has none
C26_Witness ==
    /\ unsq.pc = "done" /\ Eliminable
    /\ unsq.dims = <<0, 2>> /\ unsq.ints = <<2, 0>>
    /\ unsq.initializer = <<1, 0, 1, 2>>
    /\ unsq.input_def = ShapeOf(<<1, 0, 1, 2>>)
    /\ unsq.output_def = NoShape

\* ---------------------------------------------------------------------
\* GetTensorShapeAndTypeHelper and GetTensorShapeAndType
\* (core/framework/tensor_type_and_shape.cc 29-51, 167-207)
\* ---------------------------------------------------------------------

\* the highest rank of the TensorShape passed in
MaxShapeRank == 2

InfoShapes(n) == [1..n -> {1, 2}]

noinfo ==
    <<kargs, frame, C, parvars, history, sgemmvars, tcall, oncevars,
      matmul, fusion, upsample, unsq>>

\* new OrtTensorTypeAndShapeInfo(): an info of no element type and no dims,
\* not yet deleted
NewInfo ==
    [type |-> ONNX_TENSOR_ELEMENT_DATA_TYPE("UNDEFINED"), dims |-> <<>>, deleted |-> 0]

\* an info handed back to its owner without a delete
OrtKeepTensorTypeAndShapeInfo(heap, ptr) == heap

\* OrtReleaseTensorTypeAndShapeInfo: delete ptr
OrtReleaseTensorTypeAndShapeInfo(heap, ptr) ==
    [heap EXCEPT ![ptr].deleted = @ + 1]

\* TensorShape(dim_values, dim_count): dim_count values copied
TensorShape(dim_values, dim_count) == [i \in 1..dim_count |-> dim_values[i]]

\* lines 186-192 and 194-207: the element type of the MLDataType or of the
\* TypeProto; ORT_NOT_IMPLEMENTED if it is UNDEFINED, else the helper
GetTensorShapeAndType ==
    /\ info.pc = "entry"
    /\ LET type == IF info.entry = "MLDataType"
                   THEN MLDataTypeToOnnxRuntimeTensorElementDataType(info.arg)
                   ELSE TensorDataTypeToOnnxRuntimeTensorElementDataType(info.arg)
       IN info' = IF type = ONNX_TENSOR_ELEMENT_DATA_TYPE("UNDEFINED")
                  THEN [info EXCEPT !.pc = "done", !.status = "ORT_NOT_IMPLEMENTED"]
                  ELSE [info EXCEPT !.pc = "helper", !.type = type]
    /\ UNCHANGED noinfo

\* lines 168-170: OrtCreateTensorTypeAndShapeInfo(&ret), whose new can throw
GetTensorShapeAndTypeHelperCreate ==
    /\ info.pc = "helper"
    /\ \E thrown \in BOOLEAN :
          info' = IF thrown
                  THEN [info EXCEPT !.pc = "done", !.status = "ORT_RUNTIME_EXCEPTION"]
                  ELSE [info EXCEPT !.pc = "set_type",
                                    !.heap = Append(@, NewInfo),
                                    !.ret = Len(info.heap) + 1]
    /\ UNCHANGED noinfo

\* lines 171-174, and 182-183 when no shape is given
GetTensorShapeAndTypeHelperSetType ==
    /\ info.pc = "set_type"
    /\ \E thrown \in BOOLEAN :
          info' = IF thrown
                  THEN [info EXCEPT !.pc = "done", !.status = "ORT_RUNTIME_EXCEPTION",
                                    !.heap = OrtReleaseTensorTypeAndShapeInfo(@, info.ret)]
                  ELSE LET set == [info EXCEPT !.heap[info.ret].type = info.type]
                       IN IF info.shape.given
                          THEN [set EXCEPT !.pc = "set_dims"]
                          ELSE [set EXCEPT !.pc = "done", !.status = "nullptr",
                                           !.out = info.ret]
    /\ UNCHANGED noinfo

\* lines 175-183: OrtSetDimensions, whose TensorShape can throw
GetTensorShapeAndTypeHelperSetDimensions ==
    /\ info.pc = "set_dims"
    /\ \E thrown \in BOOLEAN :
          info' = IF thrown
                  THEN [info EXCEPT !.pc = "done", !.status = "ORT_RUNTIME_EXCEPTION",
                                    !.heap = OrtReleaseTensorTypeAndShapeInfo(@, info.ret)]
                  ELSE [info EXCEPT !.pc = "done", !.status = "nullptr",
                                    !.heap[info.ret].dims =
                                        TensorShape(info.shape.dims, Len(info.shape.dims)),
                                    !.out = info.ret]
    /\ UNCHANGED noinfo

\* the callers' arguments: an MLDataType, the elem_type of a tensor or sparse
\* tensor TypeProto, or an element type passed to the helper itself
InfoArgs(entry) ==
    CASE entry = "MLDataType" -> {GetType(T) : T \in CppTypes}
      [] entry = "TypeProto" -> {TensorProto_DataType(v) : v \in Supported \cup Unsupported}
      [] OTHER -> {ONNX_TENSOR_ELEMENT_DATA_TYPE(v) : v \in Supported \cup {"UNDEFINED"}}

\* A call of one of the two GetTensorShapeAndType or of the helper, with a
\* shape of rank 0..MaxShapeRank or none; *out is unset (0) or points to an
\* info of an earlier call.
InitInfo ==
    /\ KernelIdle /\ ParIdle /\ GemmIdle /\ SgemmIdle /\ TypesIdle /\ OnceIdle
    /\ MatMulIdle /\ FusionIdle /\ UpsampleIdle /\ UnsqIdle
    /\ \E entry \in {"MLDataType", "TypeProto", "Helper"}, given \in BOOLEAN,
          rank \in 0..MaxShapeRank, earlier \in BOOLEAN :
          \E arg \in InfoArgs(entry), dims \in InfoShapes(rank) :
             /\ (~given => rank = 0)
             /\ info = [pc |-> IF entry = "Helper" THEN "helper" ELSE "entry",
                        entry |-> entry, arg |-> arg,
                        shape |-> [given |-> given, dims |-> dims],
                        type |-> IF entry = "Helper" THEN arg
                                 ELSE ONNX_TENSOR_ELEMENT_DATA_TYPE("UNDEFINED"),
                        heap |-> IF earlier THEN <<NewInfo>> ELSE <<>>,
                        earlier |-> IF earlier THEN 1 ELSE 0,
                        ret |-> 0,
                        out |-> IF earlier THEN 1 ELSE 0,
                        status |-> "running"]

NextInfo ==
    \/ GetTensorShapeAndType
    \/ GetTensorShapeAndTypeHelperCreate
    \/ GetTensorShapeAndTypeHelperSetType
    \/ GetTensorShapeAndTypeHelperSetDimensions

SpecInfo == InitInfo /\ [][NextInfo]_vars

\* the infos this call has created
Created == (info.earlier + 1)..Len(info.heap)

\* C28: a call returns either a null status, and then *out points to the one
\* info the call created, not deleted, holding the element type and, if a
\* shape was supplied, its dimensions; or a non-null status, and then *out
\* is what it was and an info the call created has been deleted exactly
\* once. No info is ever deleted twice, and none of an earlier call is
\* touched. GetTensorShapeAndType returns ORT_NOT_IMPLEMENTED and creates
\* no info when the element type maps to UNDEFINED.
C28_NewInfoInOutOrReleasedOnce ==
    /\ info.pc \in {"entry", "helper", "set_type", "set_dims", "done"}
    /\ \A p \in DOMAIN info.heap : info.heap[p].deleted <= 1
    /\ \A p \in 1..info.earlier : info.heap[p] = NewInfo
    /\ Cardinality(Created) <= 1
    /\ info.pc = "done" =>
          /\ info.status \in {"nullptr", "ORT_NOT_IMPLEMENTED", "ORT_RUNTIME_EXCEPTION"}
          /\ info.status = "nullptr" =>
                /\ Created = {info.out}
                /\ info.heap[info.out].deleted = 0
                /\ info.heap[info.out].type = info.type
                /\ info.entry = "Helper" => info.heap[info.out].type = info.arg
                /\ info.shape.given => info.heap[info.out].dims = info.shape.dims
          /\ info.status # "nullptr" =>
                /\ info.out = info.earlier
                /\ \A p \in Created : info.heap[p].deleted = 1
          /\ info.entry # "Helper" =>
                LET type == IF info.entry = "MLDataType"
                            THEN MLDataTypeToOnnxRuntimeTensorElementDataType(info.arg)
                            ELSE TensorDataTypeToOnnxRuntimeTensorElementDataType(info.arg)
                IN /\ type.v = "UNDEFINED" =>
                         (info.status = "ORT_NOT_IMPLEMENTED" /\ Created = {})
                   /\ type.v # "UNDEFINED" => info.status # "ORT_NOT_IMPLEMENTED"
                   /\ info.status = "nullptr" => info.heap[info.out].type = type

\* GetTensorShapeAndType of an int64_t tensor of shape (2, 1) has returned a
\* status because OrtSetDimensions failed: the info it created is deleted
\* once and *out still points to the info of the earlier call
C28_Witness ==
    /\ info.pc = "done" /\ info.entry = "MLDataType" /\ info.arg = GetType("int64_t")
    /\ info.shape = [given |-> TRUE, dims |-> <<2, 1>>]
    /\ info.status = "ORT_RUNTIME_EXCEPTION"
    /\ Len(info.heap) = 2 /\ info.heap[2].deleted = 1
    /\ info.heap[2].type = ONNX_TENSOR_ELEMENT_DATA_TYPE("INT64")
    /\ info.out = 1 /\ info.heap[1].deleted = 0

====
